---- MODULE Spec2Model ----
(***************************************************************************)
(* Model of the ECG analysis backend (backend/core/ml_models/ecg_predictor *)
(* .py and backend/api/views.py: upload_scan).                             *)
(*                                                                         *)
(* The specifications of the module:                                       *)
(*   Spec        one analysis (ECGPredictor.predict) with its data: lead   *)
(*               geometry, per-lead scores, the three rankings, the        *)
(*               consensus tiers and the overall consensus;                *)
(*   ServerSpec  concurrent upload_scan requests of one process: storage,  *)
(*               the Scan table, the ECGPredictor singleton and the shared *)
(*               model's gradient buffers;                                 *)
(*   GeometrySpec  get_lead_boxes as a function of any width and height;   *)
(*   AblationSpec  one iteration of ablation_study as a function of the    *)
(*               baseline and the masked confidence;                       *)
(*   AuthSpec    the registration, login, Google and two-factor endpoints  *)
(*               of api/views.py over the users' records;                  *)
(*   ScanSpec    the scan endpoints of api/views.py (list, detail,         *)
(*               statistics, report, delete) with delete_account and the   *)
(*               two actions of core/admin.py's ScanAdmin;                 *)
(*   LevelSpec   _calculate_consensus's overall level and score as a       *)
(*               function of the three rankings' top leads;                *)
(*   RemapSpec   _remap_prediction as a function of the softmax output.    *)
(*                                                                         *)
(* Numbers: pixel coordinates are integers; the relative box table is in   *)
(* hundredths; the consensus score is in tenths of a percent (33.3 is 333);*)
(* a per-lead score is an integer level 0..MaxPeak standing for a value of *)
(* [0,1].                                                                  *)
(***************************************************************************)
EXTENDS Integers, Sequences, FiniteSets, TLC

VARIABLES
    \* ---- one analysis (Spec) ----
    pc,                \* position of predict: "start", "opened", "attention",
                       \* "gradients", "ablation", "scored", "done" (the
                       \* consensus is computed), "result" (predict returned),
                       \* or "error" when it raised
    image_size,        \* <<width, height>> of original_image
    lead_boxes,        \* lead -> <<x1,y1,x2,y2>>
    attention_map,     \* lead -> value of attention_rollout's map there
    ig_map,            \* lead -> value of integrated_gradients' map there
    lead_scores,       \* lead -> [attention_score, gradient_score]
    ablation_results,  \* lead -> [confidence_drop]
    attn_ranked,       \* the three rankings (sequences of lead names)
    grad_ranked,
    ablation_ranked,
    consensus,         \* lead -> [level, stars, attn_rank, grad_rank, ablation_rank]
    overall_consensus, \* [score, level, common_critical_leads, top_leads_by_method]
    predicted_class,   \* the class name _remap_prediction returned
    lead_analysis,     \* lead -> the record of result['lead_analysis']
    critical_leads,    \* leads of level critical, in consensus.items() order
    important_leads,   \* leads of level important, in the same order
    interpretation,    \* the dict _build_interpretation returned
    \* ---- the server process (ServerSpec) ----
    rpc,               \* request -> position in upload_scan / predict
    response,          \* request -> HTTP status answered (0 while running)
    storage,           \* default_storage: the set of files <<request, kind>>
    scans,             \* the Scan table: requests whose record was created
    _instance,         \* ECGPredictor._instance: an object id, 0 for None
    model_loaded,      \* object id -> the object has its _model and _processor
    load_count,        \* completed runs of _initialize_model
    num_objects,       \* objects created by super().__new__
    predictor,         \* request -> the object ECGPredictor() returned to it
    ig_step,           \* request -> index of its integrated-gradients iteration
    param_grad,        \* object id -> requests whose backward passes are
                       \* accumulated in the model's .grad buffers
    \* ---- get_lead_boxes as a function (GeometrySpec) ----
    geo_pc,            \* "idle", "call" or "returned"
    geo_width,         \* image_width
    geo_height,        \* image_height
    geo_boxes,         \* the mapping returned
    \* ---- one lead of ablation_study (AblationSpec) ----
    abl_pc,            \* "idle", "call" or "returned"
    baseline_conf,     \* float(baseline_probs[target_class]), in 1/ConfSteps
    masked_conf,       \* float(probs[target_class]) of the masked image
    abl_record,        \* ablation_results[lead], in tenths of a percent
    \* ---- login and two-factor endpoints (AuthSpec) ----
    auth_pc,           \* "off", "idle" or "received" (a request is in a view)
    auth_request,      \* the request being handled
    auth_response,     \* the Response of the last request handled
    clock,             \* the current TOTP time step
    is_active,         \* user -> User.is_active
    two_fa_enabled,    \* user -> User.two_fa_enabled
    two_fa_secret,     \* user -> User.two_fa_secret, NoSecret for None
    token_holders,     \* users for whom a token pair has been issued
    registered,        \* the users that have a User record
    password,          \* user -> the password set, 0 for none
    first_factor,      \* the users whose password login_user has accepted with
                       \* requires_2fa, no tokens issued since (for the
                       \* properties)
    \* ---- the scan endpoints (ScanSpec) ----
    scan_pc,           \* "off"; "idle"; "received": a view is about to run
    scan_request,      \* the request being served
    scan_response,     \* the Response of the last request served
    scan_db,           \* the scans table: scan id -> row
    scan_users,        \* the users whose account exists
    scan_log,          \* scan id -> what earlier calls did (for the properties)
    \* ---- two analyses side by side (LevelSpec) ----
    cmp_pc,            \* "off"; "ranked"; "done": both consensus are computed
    cmp_rankings,      \* for each of the two analyses its three rankings
    cmp_results,       \* for each of the two analyses its overall consensus
    \* ---- the class of one forward pass (RemapSpec) ----
    remap_pc,          \* "off"; "forward": the probabilities are known;
                       \* "returned": _remap_prediction has returned
    probs,             \* softmax of the 4 logits, model index 0..3 -> 1/ProbSteps
    remapped           \* what _remap_prediction returned

\* What predict builds after the consensus.
rvars == <<predicted_class, lead_analysis, critical_leads, important_leads,
           interpretation>>

avars == <<pc, image_size, lead_boxes, attention_map, ig_map, lead_scores, ablation_results,
           attn_ranked, grad_ranked, ablation_ranked, consensus,
           overall_consensus, rvars>>

svars == <<rpc, response, storage, scans, _instance, model_loaded, load_count,
           num_objects, predictor, ig_step, param_grad>>

gvars == <<geo_pc, geo_width, geo_height, geo_boxes>>

bvars == <<abl_pc, baseline_conf, masked_conf, abl_record>>

dvars == <<scan_pc, scan_request, scan_response, scan_db, scan_users, scan_log>>

cvars == <<cmp_pc, cmp_rankings, cmp_results>>

mvars == <<remap_pc, probs, remapped>>

uvars == <<auth_pc, auth_request, auth_response, clock, is_active,
           two_fa_enabled, two_fa_secret, token_holders, registered, password,
           first_factor>>

vars == <<avars, svars, gvars, bvars, uvars, dvars, cvars, mvars>>

\* The variables an action of one specification leaves to the others.
notAnalysis == <<svars, gvars, bvars, uvars, dvars, cvars, mvars>>

\* The same for the steps of predict up to the consensus.
notConsensus == <<rvars, notAnalysis>>

notServer == <<avars, gvars, bvars, uvars, dvars, cvars, mvars>>

notGeometry == <<avars, svars, bvars, uvars, dvars, cvars, mvars>>

notAblation == <<avars, svars, gvars, uvars, dvars, cvars, mvars>>

notScan == <<avars, svars, gvars, bvars, uvars, cvars, mvars>>

notLevel == <<avars, svars, gvars, bvars, uvars, dvars, mvars>>

notRemap == <<avars, svars, gvars, bvars, uvars, dvars, cvars>>

notAuth == <<avars, svars, gvars, bvars, dvars, cvars, mvars>>

----------------------------------------------------------------------------
(* Bounds *)

\* Largest image width / height of an analysed image, in pixels.
MaxWidth == 4
MaxHeight == 5
\* Height of a full saliency peak (a per-lead score is a level 0..MaxPeak).
MaxPeak == 3
\* Concurrent upload_scan requests of the process.
NumRequests == 2
\* steps of integrated_gradients (the loop runs steps + 1 iterations);
\* predict passes 30.
IGSteps == 1
\* Largest width and height get_lead_boxes is called with in GeometrySpec.
MaxDim == 8
\* Resolution of a confidence in AblationSpec: a probability is k / ConfSteps.
ConfSteps == 10
\* AuthSpec: registered users, secrets generate_totp_secret can return, TOTP
\* time steps, and the size of the space of TOTP codes.
NumUsers == 1
NumSecrets == 2
MaxTime == 2
MaxCode == 4
\* Number of user accounts and of scan ids of the scan endpoints.
NumOwners == 2
\* A class probability is a multiple of 1/ProbSteps.
ProbSteps == 6
NumScans == 1

----------------------------------------------------------------------------
(* Lead geometry: RealWorldECGAnalyzer.get_lead_boxes *)

\* The keys of the boxes dict, in insertion order.
Leads == <<"I", "aVR", "V1", "V4", "II", "aVL", "V2", "V5", "III", "aVF", "V3", "V6">>

NumLeads == Len(Leads)

LeadSet == {Leads[i] : i \in 1..NumLeads}

\* The relative rectangles (l, t, r, b), in hundredths.
boxes == [lead \in LeadSet |->
    CASE lead = "I"   -> <<0, 13, 25, 30>>
      [] lead = "aVR" -> <<25, 13, 50, 30>>
      [] lead = "V1"  -> <<50, 13, 75, 30>>
      [] lead = "V4"  -> <<75, 13, 100, 30>>
      [] lead = "II"  -> <<0, 33, 25, 50>>
      [] lead = "aVL" -> <<25, 33, 50, 50>>
      [] lead = "V2"  -> <<50, 33, 75, 50>>
      [] lead = "V5"  -> <<75, 33, 100, 50>>
      [] lead = "III" -> <<0, 53, 25, 70>>
      [] lead = "aVF" -> <<25, 53, 50, 70>>
      [] lead = "V3"  -> <<50, 53, 75, 70>>
      [] lead = "V6"  -> <<75, 53, 100, 70>>]

\* int(ratio * size) for a ratio given in hundredths.  The double product
\* truncates to the same integer for every size below 90 pixels.
IntScale(hundredths, size) == (hundredths * size) \div 100

\* get_lead_boxes scaling x by the height and y by the width.
get_lead_boxes_swapped(image_width, image_height) ==
    [lead \in LeadSet |->
        <<IntScale(boxes[lead][1], image_height),
          IntScale(boxes[lead][2], image_width),
          IntScale(boxes[lead][3], image_height),
          IntScale(boxes[lead][4], image_width)>>]

get_lead_boxes(image_width, image_height) ==
    [lead \in LeadSet |->
        <<IntScale(boxes[lead][1], image_width),
          IntScale(boxes[lead][2], image_height),
          IntScale(boxes[lead][3], image_width),
          IntScale(boxes[lead][4], image_height)>>]

\* Number of pixels of the slice [y1:y2, x1:x2] (attn_region.size).
RegionSize(box) ==
    (IF box[3] > box[1] THEN box[3] - box[1] ELSE 0)
  * (IF box[4] > box[2] THEN box[4] - box[2] ELSE 0)

----------------------------------------------------------------------------
(* Python helpers *)

\* list.index(x): 0-based position of the first occurrence.
RECURSIVE IndexFrom(_, _, _)
IndexFrom(seq, x, i) == IF seq[i] = x THEN i - 1 ELSE IndexFrom(seq, x, i + 1)

Index(seq, x) == IndexFrom(seq, x, 1)

\* InsertDesc putting x before the elements whose key equals its own.
InsertDescTiesFirst(sorted, x, key) ==
    LET p == Cardinality({i \in 1..Len(sorted) : key[sorted[i]] > key[x]})
    IN  SubSeq(sorted, 1, p) \o <<x>> \o SubSeq(sorted, p + 1, Len(sorted))

\* One insertion of a stable descending sort: x goes after every element
\* whose key is greater than or equal to its own.
InsertDesc(sorted, x, key) ==
    LET p == Cardinality({i \in 1..Len(sorted) : key[sorted[i]] >= key[x]})
    IN  SubSeq(sorted, 1, p) \o <<x>> \o SubSeq(sorted, p + 1, Len(sorted))

\* sorted(keys, key=..., reverse=True): descending, equal keys keep the
\* order they have in keys.
RECURSIVE SortedDesc(_, _)
SortedDesc(keys, key) ==
    IF keys = <<>> THEN <<>>
    ELSE InsertDesc(SortedDesc(SubSeq(keys, 1, Len(keys) - 1), key),
                    keys[Len(keys)], key)

\* The keys of a dict filled in the order of lead_boxes.items().
RECURSIVE KeysUpTo(_, _)
KeysUpTo(d, n) ==
    IF n = 0 THEN <<>>
    ELSE IF Leads[n] \in DOMAIN d THEN Append(KeysUpTo(d, n - 1), Leads[n])
    ELSE KeysUpTo(d, n - 1)

Keys(d) == KeysUpTo(d, NumLeads)

\* seq[:n]
Take(seq, n) == SubSeq(seq, 1, IF n < Len(seq) THEN n ELSE Len(seq))

SeqSet(seq) == {seq[i] : i \in 1..Len(seq)}

Min(a, b) == IF a < b THEN a ELSE b

\* round(n / d, 0) for d > 0: the nearest integer, a tie going to the even
\* one.
RoundDiv(n, d) ==
    LET q == n \div d
        r == n % d
    IN  IF 2 * r < d THEN q
        ELSE IF 2 * r > d THEN q + 1
        ELSE IF q % 2 = 0 THEN q ELSE q + 1

\* sum([a, b, c]) of three booleans
Sum3(a, b, c) == (IF a THEN 1 ELSE 0) + (IF b THEN 1 ELSE 0) + (IF c THEN 1 ELSE 0)

----------------------------------------------------------------------------
(* The estimators' outputs *)

\* A saliency peak: the map is focused on the lead at position start of the
\* grid enumeration and fades by one level per following lead; height 0 is
\* the flat map.
Peak(start, height) ==
    [lead \in LeadSet |->
        LET off == (Index(Leads, lead) - start + NumLeads) % NumLeads
        IN  IF off < height THEN height - off ELSE 0]

\* The maps the model returns here: the flat map, a single hot lead, or a
\* peak of the full height.
PeakHeights == {0, 1, MaxPeak}

PeakMaps == {Peak(s, k) : s \in 0..(NumLeads - 1), k \in PeakHeights}

\* The map with one value everywhere.
Flat(level) == [lead \in LeadSet |-> level]

\* What the network can give the two map estimators: a peak, or the same
\* non-zero value on every pixel.  A map is kept as its value on each lead's
\* region; the pixels outside the regions are at the map's minimum.
RawMaps == PeakMaps \cup {Flat(MaxPeak)}

\* Scores and map values are in units of 1 / ScoreUnits, the resolution of
\* round(score * 100, 1).
ScoreUnits == 1000

MapMax(map) == CHOOSE v \in {map[l] : l \in LeadSet} : \A l \in LeadSet : map[l] <= v

MapMin(map) == CHOOSE v \in {map[l] : l \in LeadSet} : \A l \in LeadSet : v <= map[l]

\* The end of integrated_gradients:
\*   if attribution.max() > 0: attribution = attribution / attribution.max()
\* over np.abs(...), so the values are non-negative.
integrated_gradients(attribution) ==
    IF MapMax(attribution) > 0
    THEN [lead \in LeadSet |->
            RoundDiv(attribution[lead] * ScoreUnits, MapMax(attribution))]
    ELSE attribution

\* compute_lead_scores, the normalisation of one resized map:
\*   if m.max() > m.min(): m = (m - m.min()) / (m.max() - m.min())
\* and nothing else: a map with max = min is left as it is.
MinMaxNormalize(map) ==
    IF MapMax(map) > MapMin(map)
    THEN [lead \in LeadSet |->
            RoundDiv((map[lead] - MapMin(map)) * ScoreUnits,
                     MapMax(map) - MapMin(map))]
    ELSE map

\* MultiMethodInterpreter.compute_lead_scores: both maps normalised, then
\* the mean of each map over the lead's box, 0 for an empty box.
compute_lead_scores(attn_resized, ig_resized, boxesOf) ==
    LET attn_normalized == MinMaxNormalize(attn_resized)
        ig_normalized   == MinMaxNormalize(ig_resized)
    IN  [lead \in LeadSet |->
            [attention_score |-> IF RegionSize(boxesOf[lead]) > 0
                                 THEN attn_normalized[lead] ELSE 0,
             gradient_score  |-> IF RegionSize(boxesOf[lead]) > 0
                                 THEN ig_normalized[lead] ELSE 0]]

\* ablation_study leaving out the leads whose box is empty.
ablation_study_skip_empty(drop, boxesOf) ==
    [lead \in {l \in LeadSet : RegionSize(boxesOf[l]) > 0} |->
        [confidence_drop |-> drop[lead]]]

\* MultiMethodInterpreter.ablation_study: masking an empty box leaves the
\* image as it is, so the masked confidence is the baseline and the drop 0.
ablation_study(drop, boxesOf) ==
    [lead \in LeadSet |->
        [confidence_drop |-> IF RegionSize(boxesOf[lead]) > 0
                             THEN drop[lead] ELSE 0]]

----------------------------------------------------------------------------
(* MultiMethodInterpreter.calculate_consensus *)

\* TierOf with the second rule demanding more than two top-3 placements.
TierOfStrictImportant(in_top_3, in_top_5) ==
    IF in_top_3 = 3 THEN [level |-> "critical", stars |-> 3]
    ELSE IF in_top_3 > 2 THEN [level |-> "important", stars |-> 2]
    ELSE IF in_top_5 >= 2 THEN [level |-> "moderate", stars |-> 1]
    ELSE [level |-> "minor", stars |-> 0]

\* TierOf with the labels of the second and third rule exchanged.
TierOfSwapped(in_top_3, in_top_5) ==
    IF in_top_3 = 3 THEN [level |-> "critical", stars |-> 3]
    ELSE IF in_top_3 >= 2 THEN [level |-> "moderate", stars |-> 1]
    ELSE IF in_top_5 >= 2 THEN [level |-> "important", stars |-> 2]
    ELSE [level |-> "minor", stars |-> 0]

\* TierOf calling a lead critical from two top-3 placements on.
TierOfCriticalAtTwo(in_top_3, in_top_5) ==
    IF in_top_3 >= 2 THEN [level |-> "critical", stars |-> 3]
    ELSE IF in_top_5 >= 2 THEN [level |-> "moderate", stars |-> 1]
    ELSE [level |-> "minor", stars |-> 0]

\* The tier of a lead, first matching rule.
TierOf(in_top_3, in_top_5) ==
    IF in_top_3 = 3 THEN [level |-> "critical", stars |-> 3]
    ELSE IF in_top_3 >= 2 THEN [level |-> "important", stars |-> 2]
    ELSE IF in_top_5 >= 2 THEN [level |-> "moderate", stars |-> 1]
    ELSE [level |-> "minor", stars |-> 0]

ConsensusEntry(lead, aRanked, gRanked, bRanked) ==
    LET attn_rank     == Index(aRanked, lead)
        grad_rank     == Index(gRanked, lead)
        ablation_rank == Index(bRanked, lead)
        in_top_3 == Sum3(attn_rank < 3, grad_rank < 3, ablation_rank < 3)
        in_top_5 == Sum3(attn_rank < 5, grad_rank < 5, ablation_rank < 5)
        tier     == TierOf(in_top_3, in_top_5)
    IN  [level |-> tier.level,
         stars |-> tier.stars,
         attn_rank |-> attn_rank + 1,
         grad_rank |-> grad_rank + 1,
         ablation_rank |-> ablation_rank + 1]

\* len(a & b) + len(b & c) + len(a & c)
PairwiseAgreement(a, g, b) ==
    Cardinality(a \cap g) + Cardinality(g \cap b) + Cardinality(a \cap b)

\* OverallScore without the cap at 100.
OverallScoreUncapped(common, pairwise) == common * 333 + pairwise * 50

\* OverallScore counting every pairwise overlap once too often.
OverallScoreOffByOne(common, pairwise) ==
    Min(1000, common * 333 + (pairwise + 1) * 50)

\* round(min(100, common * 33.3 + pairwise * 5), 1), in tenths.
OverallScore(common, pairwise) == Min(1000, common * 333 + pairwise * 50)

\* OverallLevel demanding a pairwise overlap above 4 for MODERATE.
OverallLevelStrict(common, pairwise) ==
    IF common >= 2 THEN "HIGH"
    ELSE IF common >= 1 \/ pairwise > 4 THEN "MODERATE"
    ELSE "LOW"

\* OverallLevel demanding three common leads for HIGH.
OverallLevelHighAtThree(common, pairwise) ==
    IF common > 2 THEN "HIGH"
    ELSE IF common >= 1 \/ pairwise >= 4 THEN "MODERATE"
    ELSE "LOW"

OverallLevel(common, pairwise) ==
    IF common >= 2 THEN "HIGH"
    ELSE IF common >= 1 \/ pairwise >= 4 THEN "MODERATE"
    ELSE "LOW"

OverallConsensus(aRanked, gRanked, bRanked) ==
    LET top_3_attn     == SeqSet(Take(aRanked, 3))
        top_3_grad     == SeqSet(Take(gRanked, 3))
        top_3_ablation == SeqSet(Take(bRanked, 3))
        common_top_3   == top_3_attn \cap top_3_grad \cap top_3_ablation
        pairwise_agreement == PairwiseAgreement(top_3_attn, top_3_grad, top_3_ablation)
    IN  [score |-> OverallScore(Cardinality(common_top_3), pairwise_agreement),
         level |-> OverallLevel(Cardinality(common_top_3), pairwise_agreement),
         common_critical_leads |-> common_top_3,
         top_leads_by_method |->
             [attention |-> Take(aRanked, 3),
              gradient  |-> Take(gRanked, 3),
              ablation  |-> Take(bRanked, 3)]]

----------------------------------------------------------------------------
(* One analysis: ECGPredictor.predict *)

None == "None"

\* A single pixel, a one-pixel-wide strip and a full image.
ImageSizes == {<<1, 1>>, <<1, MaxHeight>>, <<MaxWidth, MaxHeight>>}

AnalysisInit ==
    /\ pc = "start"
    /\ image_size = None
    /\ lead_boxes = None
    /\ attention_map = None
    /\ ig_map = None
    /\ lead_scores = None
    /\ ablation_results = None
    /\ attn_ranked = <<>>
    /\ grad_ranked = <<>>
    /\ ablation_ranked = <<>>
    /\ consensus = None
    /\ overall_consensus = None
    /\ predicted_class = None
    /\ lead_analysis = None
    /\ critical_leads = <<>>
    /\ important_leads = <<>>
    /\ interpretation = None

\* Image.open(...) and get_lead_boxes(original_image.width, .height)
OpenImage ==
    /\ pc = "start"
    /\ \E size \in ImageSizes :
        /\ image_size' = size
        /\ lead_boxes' = get_lead_boxes(size[1], size[2])
    /\ pc' = "opened"
    /\ UNCHANGED <<attention_map, ig_map, lead_scores, ablation_results,
                   attn_ranked, grad_ranked, ablation_ranked, consensus,
                   overall_consensus>>
    /\ UNCHANGED notConsensus

\* Method 1: attention_rollout; the map is the model's.
AttentionRollout ==
    /\ pc = "opened"
    /\ \E m \in RawMaps : attention_map' = m
    /\ pc' = "attention"
    /\ UNCHANGED <<image_size, lead_boxes, ig_map, lead_scores,
                   ablation_results, attn_ranked, grad_ranked, ablation_ranked,
                   consensus, overall_consensus>>
    /\ UNCHANGED notConsensus

\* Method 2: integrated_gradients; the map is the model's.
IntegratedGradients ==
    /\ pc = "attention"
    /\ \E attribution \in RawMaps : ig_map' = integrated_gradients(attribution)
    /\ pc' = "gradients"
    /\ UNCHANGED <<image_size, lead_boxes, attention_map, lead_scores,
                   ablation_results, attn_ranked, grad_ranked, ablation_ranked,
                   consensus, overall_consensus>>
    /\ UNCHANGED notConsensus

\* Method 3: ablation_study; the confidence drops of the masked images are
\* the model's.
AblationStudy ==
    /\ pc = "gradients"
    /\ \E drop \in PeakMaps : ablation_results' = ablation_study(drop, lead_boxes)
    /\ pc' = "ablation"
    /\ UNCHANGED <<image_size, lead_boxes, attention_map, ig_map, lead_scores,
                   attn_ranked, grad_ranked, ablation_ranked, consensus,
                   overall_consensus>>
    /\ UNCHANGED notConsensus

\* compute_lead_scores; predict does not read the two maps again.
ComputeLeadScores ==
    /\ pc = "ablation"
    /\ lead_scores' = compute_lead_scores(attention_map, ig_map, lead_boxes)
    /\ attention_map' = None
    /\ ig_map' = None
    /\ pc' = "scored"
    /\ UNCHANGED <<image_size, lead_boxes, ablation_results, attn_ranked,
                   grad_ranked, ablation_ranked, consensus, overall_consensus>>
    /\ UNCHANGED notConsensus

CalculateConsensus ==
    /\ pc = "scored"
    /\ attn_ranked' =
           SortedDesc(Keys(lead_scores),
                      [l \in DOMAIN lead_scores |-> lead_scores[l].attention_score])
    /\ grad_ranked' =
           SortedDesc(Keys(lead_scores),
                      [l \in DOMAIN lead_scores |-> lead_scores[l].gradient_score])
    /\ ablation_ranked' =
           SortedDesc(Keys(ablation_results),
                      [l \in DOMAIN ablation_results |-> ablation_results[l].confidence_drop])
    /\ IF DOMAIN lead_scores \subseteq SeqSet(ablation_ranked')
       THEN /\ consensus' = [lead \in DOMAIN lead_scores |->
                   ConsensusEntry(lead, attn_ranked', grad_ranked', ablation_ranked')]
            /\ overall_consensus' =
                   OverallConsensus(attn_ranked', grad_ranked', ablation_ranked')
            /\ pc' = "done"
       ELSE \* ablation_ranked.index(lead) raises ValueError
            /\ UNCHANGED <<consensus, overall_consensus>>
            /\ pc' = "error"
    /\ UNCHANGED <<image_size, lead_boxes, attention_map, ig_map, lead_scores,
                   ablation_results>>
    /\ UNCHANGED notConsensus

Next ==
    \/ OpenImage
    \/ AttentionRollout
    \/ IntegratedGradients
    \/ AblationStudy
    \/ ComputeLeadScores
    \/ CalculateConsensus

----------------------------------------------------------------------------
(* The rest of predict: lead_analysis and _build_interpretation *)

CLASS_NAMES == <<"MI_History", "MI_Patient", "Normal">>

LEAD_INFO ==
    [lead \in LeadSet |->
        CASE lead \in {"I", "aVL", "V5", "V6"} -> [territory |-> "lateral", artery |-> "LCX"]
          [] lead \in {"II", "III", "aVF"}     -> [territory |-> "inferior", artery |-> "RCA"]
          [] lead = "aVR"                      -> [territory |-> "cavity", artery |-> "LMCA"]
          [] lead \in {"V1", "V2"}             -> [territory |-> "septal", artery |-> "LAD"]
          [] lead \in {"V3", "V4"}             -> [territory |-> "anterior", artery |-> "LAD"]]

\* round(score * 100, 1) of a score in 1 / ScoreUnits, in tenths of a percent.
RoundPercent(score) == RoundDiv(score * 100 * 10, ScoreUnits)

\* The "Build lead analysis" loop of predict.
LeadAnalysis(scores, ablation, cons) ==
    [lead \in DOMAIN scores |->
        [attention_score |-> RoundPercent(scores[lead].attention_score),
         gradient_score  |-> RoundPercent(scores[lead].gradient_score),
         ablation_impact |-> ablation[lead].confidence_drop,
         consensus_level |-> cons[lead].level,
         consensus_stars |-> cons[lead].stars,
         territory       |-> LEAD_INFO[lead].territory,
         artery          |-> LEAD_INFO[lead].artery]]

\* [l for l, c in consensus.items() if c['level'] == level]
LeadsOfLevel(cons, level) ==
    SelectSeq(Keys(cons), LAMBDA l : cons[l].level = level)

\* AllKeyLeads taking every important lead.
AllKeyLeadsUncut(critical, important, analysis) ==
    IF critical \o important # <<>>
    THEN critical \o important
    ELSE Take(SortedDesc(Keys(analysis),
                         [l \in DOMAIN analysis |-> analysis[l].attention_score]), 3)

\* AllKeyLeads taking three important leads.
AllKeyLeadsThreeImportant(critical, important, analysis) ==
    IF critical \o Take(important, 3) # <<>>
    THEN critical \o Take(important, 3)
    ELSE Take(SortedDesc(Keys(analysis),
                         [l \in DOMAIN analysis |-> analysis[l].attention_score]), 3)

\* all_key_leads of _build_interpretation
AllKeyLeads(critical, important, analysis) ==
    IF critical \o Take(important, 2) # <<>>
    THEN critical \o Take(important, 2)
    ELSE Take(SortedDesc(Keys(analysis),
                         [l \in DOMAIN analysis |-> analysis[l].attention_score]), 3)

\* set([lead_analysis[l]['territory'] for l in all_key_leads[:3]])
Territories(all_key_leads, analysis) ==
    {analysis[l].territory : l \in SeqSet(Take(all_key_leads, 3))}

\* territories[0] of list(set(...)): the element the iteration of a set of
\* str yields first.  That order follows the strings' hashes, which differ
\* from one interpreter process to the next, so any element can be it.
PrimaryTerritories(all_key_leads, analysis) ==
    IF Territories(all_key_leads, analysis) # {}
    THEN Territories(all_key_leads, analysis)
    ELSE {"unknown"}

\* Recommendation giving a Normal prediction the follow-up of MI_History.
RecommendationFollowUpForNormal(class) ==
    IF class = "MI_Patient"
    THEN "Urgent: Correlate with clinical presentation and cardiac biomarkers."
    ELSE "Recommend cardiology follow-up and echocardiogram."

Recommendation(class) ==
    IF class = "MI_Patient"
    THEN "Urgent: Correlate with clinical presentation and cardiac biomarkers."
    ELSE IF class = "MI_History"
    THEN "Recommend cardiology follow-up and echocardiogram."
    ELSE "Routine follow-up as indicated."

\* The f-string of clinical, as its pieces.
ClinicalCorrelation(class, primary_territory) ==
    IF class = "MI_Patient"
    THEN <<"Pattern localizes to ", primary_territory, " territory.">>
    ELSE IF class = "MI_History"
    THEN <<"Old infarction pattern in ", primary_territory, " territory.">>
    ELSE <<"Normal sinus rhythm without ischemic changes.">>

\* The f-string of method_note, as its pieces.
MethodNote(class, overall, critical, all_key_leads) ==
    IF class = "MI_Patient"
    THEN IF overall.level = "HIGH"
         THEN <<"All three methods agree on critical leads: ", critical, ".">>
         ELSE <<"Primary attention on leads: ", Take(all_key_leads, 3), ".">>
    ELSE IF class = "MI_History"
    THEN <<"Key leads identified: ", Take(all_key_leads, 3), ".">>
    ELSE <<"Attention distributed across leads without focal abnormality.">>

KeyFindings(all_key_leads, analysis) ==
    [i \in 1..Len(Take(all_key_leads, 4)) |->
        [lead      |-> all_key_leads[i],
         attention |-> analysis[all_key_leads[i]].attention_score,
         gradient  |-> analysis[all_key_leads[i]].gradient_score,
         ablation  |-> analysis[all_key_leads[i]].ablation_impact,
         territory |-> analysis[all_key_leads[i]].territory]]

_build_interpretation(class, critical, important, overall, analysis, primary_territory) ==
    LET all_key_leads == AllKeyLeads(critical, important, analysis)
    IN  [method_agreement     |-> MethodNote(class, overall, critical, all_key_leads),
         clinical_correlation |-> ClinicalCorrelation(class, primary_territory),
         recommendation       |-> Recommendation(class),
         key_findings         |-> KeyFindings(all_key_leads, analysis)]

\* predict from "Build lead analysis" to its return.  The class is the one
\* the forward pass gave; nothing between the forward pass and this point
\* reads it, so it enters the state here.
BuildInterpretation ==
    /\ pc = "done"
    /\ \E class \in SeqSet(CLASS_NAMES) : predicted_class' = class
    /\ lead_analysis' = LeadAnalysis(lead_scores, ablation_results, consensus)
    /\ critical_leads' = LeadsOfLevel(consensus, "critical")
    /\ important_leads' = LeadsOfLevel(consensus, "important")
    /\ \E primary_territory \in
            PrimaryTerritories(AllKeyLeads(critical_leads', important_leads',
                                           lead_analysis'), lead_analysis') :
          interpretation' =
              _build_interpretation(predicted_class', critical_leads',
                                    important_leads', overall_consensus,
                                    lead_analysis', primary_territory)
    /\ pc' = "result"
    /\ UNCHANGED <<image_size, lead_boxes, attention_map, ig_map, lead_scores,
                   ablation_results, attn_ranked, grad_ranked, ablation_ranked,
                   consensus, overall_consensus>>
    /\ UNCHANGED notAnalysis

PredictNext == Next \/ BuildInterpretation

----------------------------------------------------------------------------
(* The server process: upload_scan and the ECGPredictor singleton *)

Requests == 1..NumRequests

\* Each request constructs at most one object; 0 stands for None.
Objects == 1..NumRequests

NoObject == 0

NoResponse == 0

\* Positions of predict, from its first statement to its return.
IGPositions == {"ig_forward", "ig_zero", "ig_backward"}

PredictPositions == {"predict", "ablation", "save_grid", "build_result"} \cup IGPositions

Files(r) == {<<r, "image">>, <<r, "leadgrid">>}

ServerInit ==
    /\ rpc = [r \in Requests |-> "validate"]
    /\ response = [r \in Requests |-> NoResponse]
    /\ storage = {}
    /\ scans = {}
    /\ _instance = NoObject
    /\ model_loaded = [o \in Objects |-> FALSE]
    /\ load_count = 0
    /\ num_objects = 0
    /\ predictor = [r \in Requests |-> NoObject]
    /\ ig_step = [r \in Requests |-> 0]
    /\ param_grad = [o \in Objects |-> {}]

\* upload_scan: serializer.is_valid() fails -> 400, nothing is stored.
RejectUpload(r) ==
    /\ rpc[r] = "validate"
    /\ rpc' = [rpc EXCEPT ![r] = "done"]
    /\ response' = [response EXCEPT ![r] = 400]
    /\ UNCHANGED <<storage, scans, _instance, model_loaded, load_count,
                   num_objects, predictor, ig_step, param_grad>>
    /\ UNCHANGED notServer

\* upload_scan: default_storage.save(filepath, image_file) under a fresh
\* uuid4 name.
SaveUpload(r) ==
    /\ rpc[r] = "validate"
    /\ storage' = storage \cup {<<r, "image">>}
    /\ rpc' = [rpc EXCEPT ![r] = "new_check"]
    /\ UNCHANGED <<response, scans, _instance, model_loaded, load_count,
                   num_objects, predictor, ig_step, param_grad>>
    /\ UNCHANGED notServer

\* ECGPredictor.__new__: if cls._instance is None
NewCheck(r) ==
    /\ rpc[r] = "new_check"
    /\ rpc' = [rpc EXCEPT ![r] = IF _instance = NoObject THEN "new_alloc"
                                 ELSE "new_return"]
    /\ UNCHANGED <<response, storage, scans, _instance, model_loaded,
                   load_count, num_objects, predictor, ig_step, param_grad>>
    /\ UNCHANGED notServer

\* ECGPredictor.__new__: cls._instance = super().__new__(cls)
NewAlloc(r) ==
    /\ rpc[r] = "new_alloc"
    /\ num_objects' = num_objects + 1
    /\ _instance' = num_objects + 1
    /\ rpc' = [rpc EXCEPT ![r] = "new_init"]
    /\ UNCHANGED <<response, storage, scans, model_loaded, load_count,
                   predictor, ig_step, param_grad>>
    /\ UNCHANGED notServer

\* cls._instance._initialize_model() runs to its end on the object that
\* cls._instance names at the call.
InitializeModel(r) ==
    /\ rpc[r] = "new_init"
    /\ model_loaded' = [model_loaded EXCEPT ![_instance] = TRUE]
    /\ param_grad' = [param_grad EXCEPT ![_instance] = {}]
    /\ load_count' = load_count + 1
    /\ rpc' = [rpc EXCEPT ![r] = "new_return"]
    /\ UNCHANGED <<response, storage, scans, _instance, num_objects,
                   predictor, ig_step>>
    /\ UNCHANGED notServer

\* _initialize_model raises (download_model or torch.load fails); the
\* exception leaves __new__ and reaches upload_scan's handler.
InitializeModelFails(r) ==
    /\ rpc[r] = "new_init"
    /\ rpc' = [rpc EXCEPT ![r] = "except"]
    /\ UNCHANGED <<response, storage, scans, _instance, model_loaded,
                   load_count, num_objects, predictor, ig_step, param_grad>>
    /\ UNCHANGED notServer

\* ECGPredictor.__new__: return cls._instance
NewReturn(r) ==
    /\ rpc[r] = "new_return"
    /\ predictor' = [predictor EXCEPT ![r] = _instance]
    /\ rpc' = [rpc EXCEPT ![r] = "predict"]
    /\ UNCHANGED <<response, storage, scans, _instance, model_loaded,
                   load_count, num_objects, ig_step, param_grad>>
    /\ UNCHANGED notServer

\* predict up to the first forward pass and attention_rollout: the object's
\* _processor and _model are read (AttributeError when it has none).
PredictForward(r) ==
    /\ rpc[r] = "predict"
    /\ rpc' = [rpc EXCEPT ![r] = IF model_loaded[predictor[r]]
                                 THEN "ig_forward" ELSE "except"]
    /\ ig_step' = [ig_step EXCEPT ![r] = 0]
    /\ UNCHANGED <<response, storage, scans, _instance, model_loaded,
                   load_count, num_objects, predictor, param_grad>>
    /\ UNCHANGED notServer

\* integrated_gradients, one iteration: output = model(scaled_input)
IGForward(r) ==
    /\ rpc[r] = "ig_forward"
    /\ rpc' = [rpc EXCEPT ![r] = "ig_zero"]
    /\ UNCHANGED <<response, storage, scans, _instance, model_loaded,
                   load_count, num_objects, predictor, ig_step, param_grad>>
    /\ UNCHANGED notServer

\* integrated_gradients: model.zero_grad()
IGZeroGrad(r) ==
    /\ rpc[r] = "ig_zero"
    /\ param_grad' = [param_grad EXCEPT ![predictor[r]] = {}]
    /\ rpc' = [rpc EXCEPT ![r] = "ig_backward"]
    /\ UNCHANGED <<response, storage, scans, _instance, model_loaded,
                   load_count, num_objects, predictor, ig_step>>
    /\ UNCHANGED notServer

\* integrated_gradients: score.backward(), accumulated into the model's
\* parameter gradients; then the next iteration or the end of the loop.
IGBackward(r) ==
    /\ rpc[r] = "ig_backward"
    /\ param_grad' = [param_grad EXCEPT ![predictor[r]] = @ \cup {r}]
    /\ ig_step' = [ig_step EXCEPT ![r] = @ + 1]
    /\ rpc' = [rpc EXCEPT ![r] = IF ig_step[r] < IGSteps THEN "ig_forward"
                                 ELSE "ablation"]
    /\ UNCHANGED <<response, storage, scans, _instance, model_loaded,
                   load_count, num_objects, predictor>>
    /\ UNCHANGED notServer

\* ablation_study, compute_lead_scores, calculate_consensus, lead_analysis
\* and generate_lead_grid_image: forward passes and pure computation.
AblationAndConsensus(r) ==
    /\ rpc[r] = "ablation"
    /\ rpc' = [rpc EXCEPT ![r] = "save_grid"]
    /\ UNCHANGED <<response, storage, scans, _instance, model_loaded,
                   load_count, num_objects, predictor, ig_step, param_grad>>
    /\ UNCHANGED notServer

\* predict: lead_grid_img.save(grid_path), next to the uploaded image.
SaveLeadGrid(r) ==
    /\ rpc[r] = "save_grid"
    /\ storage' = storage \cup {<<r, "leadgrid">>}
    /\ rpc' = [rpc EXCEPT ![r] = "build_result"]
    /\ UNCHANGED <<response, scans, _instance, model_loaded, load_count,
                   num_objects, predictor, ig_step, param_grad>>
    /\ UNCHANGED notServer

\* predict: grid_url, _build_interpretation, the result dict; return.
PredictReturn(r) ==
    /\ rpc[r] = "build_result"
    /\ rpc' = [rpc EXCEPT ![r] = "create_scan"]
    /\ UNCHANGED <<response, storage, scans, _instance, model_loaded,
                   load_count, num_objects, predictor, ig_step, param_grad>>
    /\ UNCHANGED notServer

\* Any statement of predict raises (unreadable image, the model raises in a
\* forward or backward pass, relative_to fails, ...).
PredictRaises(r) ==
    /\ rpc[r] \in PredictPositions
    /\ rpc' = [rpc EXCEPT ![r] = "except"]
    /\ UNCHANGED <<response, storage, scans, _instance, model_loaded,
                   load_count, num_objects, predictor, ig_step, param_grad>>
    /\ UNCHANGED notServer

\* upload_scan: Scan.objects.create(...) and the 201 response.
CreateScan(r) ==
    /\ rpc[r] = "create_scan"
    /\ scans' = scans \cup {r}
    /\ response' = [response EXCEPT ![r] = 201]
    /\ rpc' = [rpc EXCEPT ![r] = "done"]
    /\ UNCHANGED <<storage, _instance, model_loaded, load_count, num_objects,
                   predictor, ig_step, param_grad>>
    /\ UNCHANGED notServer

\* upload_scan: Scan.objects.create or ScanSerializer raises.
CreateScanRaises(r) ==
    /\ rpc[r] = "create_scan"
    /\ rpc' = [rpc EXCEPT ![r] = "except"]
    /\ UNCHANGED <<response, storage, scans, _instance, model_loaded,
                   load_count, num_objects, predictor, ig_step, param_grad>>
    /\ UNCHANGED notServer

\* upload_scan: except Exception -- delete saved_path if it exists, 500.
HandleException(r) ==
    /\ rpc[r] = "except"
    /\ storage' = storage \ {<<r, "image">>}
    /\ response' = [response EXCEPT ![r] = 500]
    /\ rpc' = [rpc EXCEPT ![r] = "done"]
    /\ UNCHANGED <<scans, _instance, model_loaded, load_count, num_objects,
                   predictor, ig_step, param_grad>>
    /\ UNCHANGED notServer

ServerNext ==
    \/ \E r \in Requests : RejectUpload(r)
    \/ \E r \in Requests : SaveUpload(r)
    \/ \E r \in Requests : NewCheck(r)
    \/ \E r \in Requests : NewAlloc(r)
    \/ \E r \in Requests : InitializeModel(r)
    \/ \E r \in Requests : InitializeModelFails(r)
    \/ \E r \in Requests : NewReturn(r)
    \/ \E r \in Requests : PredictForward(r)
    \/ \E r \in Requests : IGForward(r)
    \/ \E r \in Requests : IGZeroGrad(r)
    \/ \E r \in Requests : IGBackward(r)
    \/ \E r \in Requests : AblationAndConsensus(r)
    \/ \E r \in Requests : SaveLeadGrid(r)
    \/ \E r \in Requests : PredictReturn(r)
    \/ \E r \in Requests : PredictRaises(r)
    \/ \E r \in Requests : CreateScan(r)
    \/ \E r \in Requests : CreateScanRaises(r)
    \/ \E r \in Requests : HandleException(r)

----------------------------------------------------------------------------
(* get_lead_boxes as a function of its arguments *)

GeometryIdle ==
    /\ geo_pc = "idle"
    /\ geo_width = 0
    /\ geo_height = 0
    /\ geo_boxes = None

GeometryInit ==
    /\ geo_pc = "call"
    /\ geo_width \in 0..MaxDim
    /\ geo_height \in 0..MaxDim
    /\ geo_boxes = None

\* get_lead_boxes(image_width, image_height): no check of the arguments,
\* the comprehension over boxes.items() is returned.
GetLeadBoxes ==
    /\ geo_pc = "call"
    /\ geo_boxes' = get_lead_boxes(geo_width, geo_height)
    /\ geo_pc' = "returned"
    /\ UNCHANGED <<geo_width, geo_height>>
    /\ UNCHANGED notGeometry

GeometryNext == GetLeadBoxes

----------------------------------------------------------------------------
(* ablation_study, the body of its loop for one lead *)

\* DropPercentage taking the drop with the wrong sign.
DropPercentageWrongSign(baseline, masked) ==
    IF baseline > 0 THEN RoundDiv((masked - baseline) * 1000, baseline) ELSE 0

\* round((confidence_drop / baseline_conf) * 100 if baseline_conf > 0 else 0, 1),
\* in tenths.
DropPercentage(baseline, masked) ==
    IF baseline > 0 THEN RoundDiv((baseline - masked) * 1000, baseline) ELSE 0

AblationRecord(baseline, masked) ==
    [original_confidence |-> RoundDiv(baseline * 1000, ConfSteps),
     masked_confidence   |-> RoundDiv(masked * 1000, ConfSteps),
     confidence_drop     |-> RoundDiv((baseline - masked) * 1000, ConfSteps),
     drop_percentage     |-> DropPercentage(baseline, masked)]

AblationIdle ==
    /\ abl_pc = "idle"
    /\ baseline_conf = 0
    /\ masked_conf = 0
    /\ abl_record = None

\* Both confidences are softmax outputs, probabilities in [0, 1].
AblationInit ==
    /\ abl_pc = "call"
    /\ baseline_conf \in 0..ConfSteps
    /\ masked_conf \in 0..ConfSteps
    /\ abl_record = None

AblateLead ==
    /\ abl_pc = "call"
    /\ abl_record' = AblationRecord(baseline_conf, masked_conf)
    /\ abl_pc' = "returned"
    /\ UNCHANGED <<baseline_conf, masked_conf>>
    /\ UNCHANGED notAblation

AblationNext == AblateLead

----------------------------------------------------------------------------
(* Login and two-factor authentication: api/views.py, core/two_factor.py *)

Users == 1..NumUsers

NoUser == 0

Secrets == 1..NumSecrets

NoSecret == 0

\* A code of 0 is a missing or empty field.
NoCode == 0

Codes == 1..MaxCode

\* A user's email address is the user's number; 0 is a missing field and
\* NumUsers + 1 an address nobody registered with.
Emails == 0..(NumUsers + 1)

\* A user's password is the user's number; 0 is a missing field and
\* NumUsers + 1 nobody's password.
Passwords == 0..(NumUsers + 1)

\* user.check_password(password)
check_password(user, raw_password) ==
    password[user] # 0 /\ raw_password = password[user]

\* pyotp.TOTP(secret).at(step): a keyed hash of the time step cut down to
\* the code space; two secrets can give the same code.
TOTP(secret, step) == 1 + ((secret * 3 + step) % MaxCode)

\* verify_totp_token with valid_window=2.
verify_totp_token_window_two(secret, token, now) ==
    \E offset \in {-2, -1, 0, 1, 2} : token = TOTP(secret, now + offset)

\* verify_totp_token: totp.verify(token, valid_window=1) accepts the code of
\* the current time step, of the one before and of the one after.
verify_totp_token(secret, token, now) ==
    \E offset \in {-1, 0, 1} : token = TOTP(secret, now + offset)

\* django.contrib.auth.authenticate with the model backend: the user with
\* this email, if the password matches and the user is active, else None.
authenticate(email, raw_password) ==
    IF /\ email \in registered
       /\ check_password(email, raw_password)
       /\ is_active[email]
    THEN email
    ELSE NoUser

\* A Response: its status, the requires_2fa flag of the body, and the user
\* the tokens of the body are for (NoUser when the body has no tokens).
Reply(status, requires_2fa, tokens) ==
    [status |-> status, requires_2fa |-> requires_2fa, tokens |-> tokens]

NoReply == Reply(0, FALSE, NoUser)

Request(endpoint, bearer, email, raw_password, token) ==
    [endpoint |-> endpoint, bearer |-> bearer, email |-> email,
     password |-> raw_password, token |-> token]

NoRequest == Request("none", NoUser, 0, 0, NoCode)

\* The requests a client can send: an Authorization header carries a token
\* that was issued (bearer is its user) or none.
AuthRequests ==
    {Request("login_user", NoUser, e, p, NoCode) : e \in Emails, p \in Passwords}
    \cup {Request("google_auth", NoUser, e, 0, NoCode) : e \in Users \cup {0}}
    \cup UNION {{Request("register_user", NoUser, e, p, NoCode) : p \in {0, e}} :
                    e \in Users \cup {0}}
    \cup {Request("enable_2fa", b, 0, 0, NoCode) : b \in token_holders \cup {NoUser}}
    \cup {Request("verify_2fa", b, 0, 0, t) :
              b \in token_holders \cup {NoUser}, t \in Codes \cup {NoCode}}
    \cup {Request("disable_2fa", b, 0, p, NoCode) :
              b \in token_holders \cup {NoUser}, p \in Passwords}
    \cup {Request("verify_2fa_login", NoUser, e, 0, t) :
              e \in Emails, t \in Codes \cup {NoCode}}

\* login_user without the check of two_fa_enabled.
login_user_no_2fa_check(rq) ==
    IF rq.email = 0 \/ rq.password = 0 THEN Reply(400, FALSE, NoUser)
    ELSE IF authenticate(rq.email, rq.password) = NoUser
    THEN Reply(401, FALSE, NoUser)
    ELSE Reply(200, FALSE, rq.email)

\* login_user: the Response it returns.
login_user(rq) ==
    IF rq.email = 0 \/ rq.password = 0 THEN Reply(400, FALSE, NoUser)
    ELSE IF authenticate(rq.email, rq.password) = NoUser
    THEN Reply(401, FALSE, NoUser)
    ELSE IF ~is_active[rq.email] THEN Reply(403, FALSE, NoUser)
    ELSE IF two_fa_enabled[rq.email] THEN Reply(200, TRUE, NoUser)
    ELSE Reply(200, FALSE, rq.email)

\* verify_2fa_login: the Response it returns.
verify_2fa_login(rq) ==
    IF rq.email = 0 \/ rq.token = NoCode THEN Reply(400, FALSE, NoUser)
    ELSE IF rq.email \notin registered THEN Reply(404, FALSE, NoUser)
    ELSE IF ~two_fa_enabled[rq.email] THEN Reply(400, FALSE, NoUser)
    ELSE IF ~verify_totp_token(two_fa_secret[rq.email], rq.token, clock)
    THEN Reply(400, FALSE, NoUser)
    ELSE Reply(200, FALSE, rq.email)

\* JWTAuthentication and IsAuthenticated: the token's user, who must be
\* active.
IsAuthenticated(rq) == rq.bearer # NoUser /\ is_active[rq.bearer]

AuthIdle ==
    /\ auth_pc = "off"
    /\ auth_request = NoRequest
    /\ auth_response = NoReply
    /\ clock = 1
    /\ is_active = [u \in Users |-> FALSE]
    /\ two_fa_enabled = [u \in Users |-> FALSE]
    /\ two_fa_secret = [u \in Users |-> NoSecret]
    /\ token_holders = {}
    /\ registered = {}
    /\ password = [u \in Users |-> 0]
    /\ first_factor = {}

\* Some users are registered, with the email verified (active) or not, the
\* 2FA fields at their defaults, nobody logged in.
AuthInit ==
    /\ auth_pc = "idle"
    /\ auth_request = NoRequest
    /\ auth_response = NoReply
    /\ clock = 1
    /\ registered \in SUBSET Users
    /\ is_active \in [Users -> BOOLEAN]
    /\ \A u \in Users : is_active[u] => u \in registered
    /\ password = [u \in Users |-> IF u \in registered THEN u ELSE 0]
    /\ first_factor = {}
    /\ two_fa_enabled = [u \in Users |-> FALSE]
    /\ two_fa_secret = [u \in Users |-> NoSecret]
    /\ token_holders = {}

\* A request reaches its view.
Arrive ==
    /\ auth_pc = "idle"
    /\ \E rq \in AuthRequests : auth_request' = rq
    /\ auth_response' = NoReply
    /\ auth_pc' = "received"
    /\ UNCHANGED <<clock, is_active, two_fa_enabled, two_fa_secret, token_holders>>
    /\ UNCHANGED <<registered, password, first_factor>>
    /\ UNCHANGED notAuth

\* Time passes to the next TOTP time step.
Tick ==
    /\ auth_pc # "off"
    /\ clock < MaxTime
    /\ clock' = clock + 1
    /\ UNCHANGED <<auth_pc, auth_request, auth_response, is_active,
                   two_fa_enabled, two_fa_secret, token_holders>>
    /\ UNCHANGED <<registered, password, first_factor>>
    /\ UNCHANGED notAuth

\* The tokens of a Response are generated for its user.
Issue(reply) ==
    IF reply.tokens # NoUser THEN token_holders \cup {reply.tokens}
    ELSE token_holders

LoginUser ==
    /\ auth_pc = "received"
    /\ auth_request.endpoint = "login_user"
    /\ auth_response' = login_user(auth_request)
    /\ token_holders' = Issue(auth_response')
    /\ first_factor' = IF auth_response'.requires_2fa
                       THEN first_factor \cup {auth_request.email}
                       ELSE first_factor
    /\ auth_pc' = "idle"
    /\ UNCHANGED <<auth_request, clock, is_active, two_fa_enabled, two_fa_secret>>
    /\ UNCHANGED <<registered, password>>
    /\ UNCHANGED notAuth

Verify2FALogin ==
    /\ auth_pc = "received"
    /\ auth_request.endpoint = "verify_2fa_login"
    /\ auth_response' = verify_2fa_login(auth_request)
    /\ token_holders' = Issue(auth_response')
    /\ first_factor' = first_factor \ {auth_response'.tokens}
    /\ auth_pc' = "idle"
    /\ UNCHANGED <<auth_request, clock, is_active, two_fa_enabled, two_fa_secret>>
    /\ UNCHANGED <<registered, password>>
    /\ UNCHANGED notAuth

\* enable_2fa: a new secret is stored unless 2FA is already enabled.
Enable2FA ==
    /\ auth_pc = "received"
    /\ auth_request.endpoint = "enable_2fa"
    /\ LET user == auth_request.bearer
       IN  IF ~IsAuthenticated(auth_request)
           THEN /\ auth_response' = Reply(401, FALSE, NoUser)
                /\ UNCHANGED two_fa_secret
           ELSE IF two_fa_enabled[user]
           THEN /\ auth_response' = Reply(400, FALSE, NoUser)
                /\ UNCHANGED two_fa_secret
           ELSE /\ \E secret \in Secrets :
                      two_fa_secret' = [two_fa_secret EXCEPT ![user] = secret]
                /\ auth_response' = Reply(200, FALSE, NoUser)
    /\ auth_pc' = "idle"
    /\ UNCHANGED <<auth_request, clock, is_active, two_fa_enabled, token_holders>>
    /\ UNCHANGED <<registered, password, first_factor>>
    /\ UNCHANGED notAuth

\* verify_2fa: a valid code for the stored secret turns two_fa_enabled on.
Verify2FA ==
    /\ auth_pc = "received"
    /\ auth_request.endpoint = "verify_2fa"
    /\ LET user == auth_request.bearer
       IN  IF ~IsAuthenticated(auth_request)
           THEN /\ auth_response' = Reply(401, FALSE, NoUser)
                /\ UNCHANGED two_fa_enabled
           ELSE IF \/ auth_request.token = NoCode
                   \/ two_fa_secret[user] = NoSecret
                   \/ ~verify_totp_token(two_fa_secret[user], auth_request.token, clock)
           THEN /\ auth_response' = Reply(400, FALSE, NoUser)
                /\ UNCHANGED two_fa_enabled
           ELSE /\ two_fa_enabled' = [two_fa_enabled EXCEPT ![user] = TRUE]
                /\ auth_response' = Reply(200, FALSE, NoUser)
    /\ auth_pc' = "idle"
    /\ UNCHANGED <<auth_request, clock, is_active, two_fa_secret, token_holders>>
    /\ UNCHANGED <<registered, password, first_factor>>
    /\ UNCHANGED notAuth

\* disable_2fa: with the password, the flag and the secret are cleared.
Disable2FA ==
    /\ auth_pc = "received"
    /\ auth_request.endpoint = "disable_2fa"
    /\ LET user == auth_request.bearer
       IN  IF ~IsAuthenticated(auth_request)
           THEN /\ auth_response' = Reply(401, FALSE, NoUser)
                /\ UNCHANGED <<two_fa_enabled, two_fa_secret>>
           ELSE IF \/ auth_request.password = 0
                   \/ ~two_fa_enabled[user]
                   \/ ~check_password(user, auth_request.password)
           THEN /\ auth_response' = Reply(400, FALSE, NoUser)
                /\ UNCHANGED <<two_fa_enabled, two_fa_secret>>
           ELSE /\ two_fa_enabled' = [two_fa_enabled EXCEPT ![user] = FALSE]
                /\ two_fa_secret' = [two_fa_secret EXCEPT ![user] = NoSecret]
                /\ auth_response' = Reply(200, FALSE, NoUser)
    /\ auth_pc' = "idle"
    /\ UNCHANGED <<auth_request, clock, is_active, token_holders>>
    /\ UNCHANGED <<registered, password, first_factor>>
    /\ UNCHANGED notAuth

\* register_user: the Response it returns.  The serializer refuses a
\* missing field and an email that has a User record; the user created is
\* set inactive until the emailed code is verified, and the body carries
\* the user and a message, no tokens.
register_user(rq) ==
    IF rq.email = 0 \/ rq.password = 0 \/ rq.email \in registered
    THEN Reply(400, FALSE, NoUser)
    ELSE Reply(201, FALSE, NoUser)

RegisterUser ==
    /\ auth_pc = "received"
    /\ auth_request.endpoint = "register_user"
    /\ auth_response' = register_user(auth_request)
    /\ IF auth_response'.status = 201
       THEN /\ registered' = registered \cup {auth_request.email}
            /\ password' = [password EXCEPT ![auth_request.email] = auth_request.password]
            /\ is_active' = [is_active EXCEPT ![auth_request.email] = FALSE]
       ELSE UNCHANGED <<registered, password, is_active>>
    /\ token_holders' = Issue(auth_response')
    /\ auth_pc' = "idle"
    /\ UNCHANGED <<auth_request, clock, two_fa_enabled, two_fa_secret, first_factor>>
    /\ UNCHANGED notAuth

\* google_auth: the Response it returns.  The email of the request is the
\* address Google's userinfo gives for the access token, 0 when Google
\* refuses the token.  The user found by the Google id or by the email, or
\* the user created, gets tokens; neither two_fa_enabled nor is_active is
\* read.
google_auth(rq) ==
    IF rq.email = 0 THEN Reply(401, FALSE, NoUser)
    ELSE Reply(200, FALSE, rq.email)

\* google_auth: User.objects.create_user(password=None, is_active=True)
\* when no user has the Google id or the email.
GoogleAuth ==
    /\ auth_pc = "received"
    /\ auth_request.endpoint = "google_auth"
    /\ auth_response' = google_auth(auth_request)
    /\ IF auth_response'.status = 200 /\ auth_request.email \notin registered
       THEN /\ registered' = registered \cup {auth_request.email}
            /\ password' = [password EXCEPT ![auth_request.email] = 0]
            /\ is_active' = [is_active EXCEPT ![auth_request.email] = TRUE]
       ELSE UNCHANGED <<registered, password, is_active>>
    /\ token_holders' = Issue(auth_response')
    /\ auth_pc' = "idle"
    /\ UNCHANGED <<auth_request, clock, two_fa_enabled, two_fa_secret, first_factor>>
    /\ UNCHANGED notAuth

AuthNext ==
    \/ Arrive
    \/ Tick
    \/ RegisterUser
    \/ GoogleAuth
    \/ LoginUser
    \/ Enable2FA
    \/ Verify2FA
    \/ Disable2FA
    \/ Verify2FALogin

----------------------------------------------------------------------------
(* The scan endpoints of api/views.py over the Scan table (ScanSpec) *)

Owners == 1..NumOwners

ScanIds == 1..NumScans

NoPath == 0

\* A row of the scans table: the fields the scan endpoints read and write.
\* deleted_at is 0 for None and 1 for a timestamp.
ScanRow(user, report_generated, report_path, deleted_by_user, deleted_at) ==
    [user |-> user, report_generated |-> report_generated,
     report_path |-> report_path, deleted_by_user |-> deleted_by_user,
     deleted_at |-> deleted_at]

\* No row with this id.
NoScan == ScanRow(NoUser, FALSE, NoPath, FALSE, 0)

\* The row upload_scan creates: the model's defaults.
NewScan(user) == ScanRow(user, FALSE, NoPath, FALSE, 0)

ScanRequest(endpoint, bearer, scan_id, raw_password) ==
    [endpoint |-> endpoint, bearer |-> bearer, scan_id |-> scan_id,
     password |-> raw_password]

NoScanRequest == ScanRequest("none", NoUser, 0, 0)

\* A Response: its status, the message or error of the body, the scans whose
\* data the body carries, the count (count or total_scans),
\* reports_generated, report_path, and whether the view ran
\* ScanReportGenerator.
ScanReply(status, message, listed, count, reports_generated, report_path, ran_generator) ==
    [status |-> status, message |-> message, scans |-> listed, count |-> count,
     reports_generated |-> reports_generated, report_path |-> report_path,
     ran_generator |-> ran_generator]

NoScanReply == ScanReply(0, "", {}, 0, 0, NoPath, FALSE)

NotFound == ScanReply(404, "Scan not found", {}, 0, 0, NoPath, FALSE)

\* The requests a client can send; a bearer is the user of a token that was
\* issued, whose account may have been deleted since.  A user's password is
\* the user's number, 0 a missing field, NumOwners + 1 nobody's password.
ScanRequests ==
    {ScanRequest(e, b, 0, 0) :
        e \in {"get_user_scans", "get_scan_statistics"},
        b \in Owners \cup {NoUser}}
    \cup {ScanRequest(e, b, i, 0) :
        e \in {"get_scan_detail", "delete_scan", "generate_report",
               "download_report"},
        b \in Owners \cup {NoUser}, i \in ScanIds}
    \cup UNION {{ScanRequest("delete_account", b, 0, p) :
                    p \in {0, b, NumOwners + 1}} : b \in Owners \cup {NoUser}}

\* JWTAuthentication and IsAuthenticated: the token's user must exist.
ScanAuthenticated(rq) == rq.bearer \in scan_users

\* Visible without the filter on deleted_by_user.
VisibleWithDeleted(user) ==
    {i \in ScanIds : scan_db[i].user = user}

\* Scan.objects.filter(user=request.user, deleted_by_user=False)
Visible(user) ==
    {i \in ScanIds : scan_db[i].user = user /\ ~scan_db[i].deleted_by_user}

get_user_scans(rq) ==
    ScanReply(200, "", Visible(rq.bearer), Cardinality(Visible(rq.bearer)),
              0, NoPath, FALSE)

get_scan_statistics(rq) ==
    ScanReply(200, "", {}, Cardinality(Visible(rq.bearer)),
              Cardinality({i \in Visible(rq.bearer) : scan_db[i].report_generated}),
              NoPath, FALSE)

get_scan_detail(rq) ==
    IF rq.scan_id \notin Visible(rq.bearer) THEN NotFound
    ELSE ScanReply(200, "", {rq.scan_id}, 0, 0, scan_db[rq.scan_id].report_path, FALSE)

\* ScanReportGenerator.generate_report: the path of the file written,
\* reports/ECG_Report_<scan id>_<timestamp>.pdf, named here by the scan id.
ReportPath(scan_id) == scan_id

\* generate_report without the check for an existing report.
generate_report_always_runs(rq, generator_ok) ==
    IF rq.scan_id \notin Visible(rq.bearer) THEN NotFound
    ELSE IF generator_ok
    THEN ScanReply(201, "Report generated successfully", {rq.scan_id}, 0, 0, ReportPath(rq.scan_id), TRUE)
    ELSE ScanReply(500, "Failed to generate report", {}, 0, 0, NoPath, TRUE)

\* generate_report: the Response; generator_ok is whether the generator
\* returns (or raises).
generate_report(rq, generator_ok) ==
    IF rq.scan_id \notin Visible(rq.bearer) THEN NotFound
    ELSE IF /\ scan_db[rq.scan_id].report_generated
            /\ scan_db[rq.scan_id].report_path # NoPath
    THEN ScanReply(200, "Report already exists", {rq.scan_id}, 0, 0,
                   scan_db[rq.scan_id].report_path, FALSE)
    ELSE IF generator_ok
    THEN ScanReply(201, "Report generated successfully", {rq.scan_id}, 0, 0, ReportPath(rq.scan_id), TRUE)
    ELSE ScanReply(500, "Failed to generate report", {}, 0, 0, NoPath, TRUE)

\* download_report: the file of the report, written when it was generated.
download_report(rq) ==
    IF rq.scan_id \notin Visible(rq.bearer) THEN NotFound
    ELSE IF \/ ~scan_db[rq.scan_id].report_generated
            \/ scan_db[rq.scan_id].report_path = NoPath
    THEN ScanReply(404, "Report not generated yet. Generate it first.", {}, 0, 0,
                   NoPath, FALSE)
    ELSE ScanReply(200, "", {rq.scan_id}, 0, 0, scan_db[rq.scan_id].report_path, FALSE)

\* Scan.soft_delete
soft_delete(row) == [row EXCEPT !.deleted_by_user = TRUE, !.deleted_at = 1]

\* What is remembered of the calls made for a scan: the report_path the
\* first successful generate_report returned and the user it answered, and
\* whether delete_scan has
\* succeeded on it ("deleted") and has since been undone by an
\* administrator's restore or by the deletion of the owner's account
\* ("undone").
NoLog == [reported |-> NoPath, owner |-> NoUser, deleted |-> "no"]

ScanIdle ==
    /\ scan_pc = "off"
    /\ scan_request = NoScanRequest
    /\ scan_response = NoScanReply
    /\ scan_db = [i \in ScanIds |-> NoScan]
    /\ scan_users = {}
    /\ scan_log = [i \in ScanIds |-> NoLog]

\* Every account exists; a scan id is unused or names a scan one of the
\* users uploaded.
ScanInit ==
    /\ scan_pc = "idle"
    /\ scan_request = NoScanRequest
    /\ scan_response = NoScanReply
    /\ scan_db \in [ScanIds -> {NoScan} \cup {NewScan(u) : u \in Owners}]
    /\ scan_users = Owners
    /\ scan_log = [i \in ScanIds |-> NoLog]

ScanArrive ==
    /\ scan_pc = "idle"
    /\ \E rq \in ScanRequests : scan_request' = rq
    /\ scan_response' = NoScanReply
    /\ scan_pc' = "received"
    /\ UNCHANGED <<scan_db, scan_users, scan_log>>
    /\ UNCHANGED notScan

\* Any of the views, refused for want of a valid token.
Unauthorized ==
    /\ scan_pc = "received"
    /\ ~ScanAuthenticated(scan_request)
    /\ scan_response' = ScanReply(401, "", {}, 0, 0, NoPath, FALSE)
    /\ scan_pc' = "idle"
    /\ UNCHANGED <<scan_request, scan_db, scan_users, scan_log>>
    /\ UNCHANGED notScan

\* The views that only read.
ReadScans ==
    /\ scan_pc = "received"
    /\ ScanAuthenticated(scan_request)
    /\ scan_request.endpoint \in {"get_user_scans", "get_scan_statistics",
                                  "get_scan_detail", "download_report"}
    /\ scan_response' =
         CASE scan_request.endpoint = "get_user_scans" -> get_user_scans(scan_request)
           [] scan_request.endpoint = "get_scan_statistics" -> get_scan_statistics(scan_request)
           [] scan_request.endpoint = "get_scan_detail" -> get_scan_detail(scan_request)
           [] OTHER -> download_report(scan_request)
    /\ scan_pc' = "idle"
    /\ UNCHANGED <<scan_request, scan_db, scan_users, scan_log>>
    /\ UNCHANGED notScan

GenerateReport ==
    /\ scan_pc = "received"
    /\ ScanAuthenticated(scan_request)
    /\ scan_request.endpoint = "generate_report"
    /\ \E generator_ok \in BOOLEAN :
           scan_response' = generate_report(scan_request, generator_ok)
    /\ IF scan_response'.status = 201
       THEN /\ scan_db' = [scan_db EXCEPT ![scan_request.scan_id] =
                   [@ EXCEPT !.report_path = scan_response'.report_path,
                             !.report_generated = TRUE]]
            /\ scan_log' = [scan_log EXCEPT ![scan_request.scan_id] =
                   IF @.reported = NoPath
                   THEN [@ EXCEPT !.reported = scan_response'.report_path,
                                  !.owner = scan_request.bearer]
                   ELSE @]
       ELSE UNCHANGED <<scan_db, scan_log>>
    /\ scan_pc' = "idle"
    /\ UNCHANGED <<scan_request, scan_users>>
    /\ UNCHANGED notScan

DeleteScan ==
    /\ scan_pc = "received"
    /\ ScanAuthenticated(scan_request)
    /\ scan_request.endpoint = "delete_scan"
    /\ IF scan_request.scan_id \notin Visible(scan_request.bearer)
       THEN /\ scan_response' = NotFound
            /\ UNCHANGED <<scan_db, scan_log>>
       ELSE /\ scan_response' = ScanReply(200, "Scan removed from your history", {},
                                          0, 0, NoPath, FALSE)
            /\ scan_db' = [scan_db EXCEPT ![scan_request.scan_id] = soft_delete(@)]
            /\ scan_log' = [scan_log EXCEPT ![scan_request.scan_id] =
                   [@ EXCEPT !.deleted = "deleted"]]
    /\ scan_pc' = "idle"
    /\ UNCHANGED <<scan_request, scan_users>>
    /\ UNCHANGED notScan

\* delete_account: request.user.delete() removes the user's scans with the
\* user (on_delete=CASCADE).
DeleteAccount ==
    /\ scan_pc = "received"
    /\ ScanAuthenticated(scan_request)
    /\ scan_request.endpoint = "delete_account"
    /\ IF scan_request.password = 0 \/ scan_request.password # scan_request.bearer
       THEN /\ scan_response' = ScanReply(400, "Password is required or incorrect", {}, 0, 0, NoPath, FALSE)
            /\ UNCHANGED <<scan_db, scan_users, scan_log>>
       ELSE /\ scan_response' = ScanReply(200, "Account deleted", {}, 0, 0, NoPath, FALSE)
            /\ scan_users' = scan_users \ {scan_request.bearer}
            /\ scan_db' = [i \in ScanIds |->
                   IF scan_db[i].user = scan_request.bearer
                   THEN NoScan ELSE scan_db[i]]
            /\ scan_log' = [i \in ScanIds |->
                   IF scan_db[i].user = scan_request.bearer /\ scan_log[i].deleted = "deleted"
                   THEN [scan_log[i] EXCEPT !.deleted = "undone"]
                   ELSE scan_log[i]]
    /\ scan_pc' = "idle"
    /\ UNCHANGED scan_request
    /\ UNCHANGED notScan

\* ScanAdmin.mark_as_deleted on one scan: queryset.update(deleted_by_user=True).
\* The administrator's request is served by the admin site, not by a view
\* of the API: no API request or Response is at hand after it.
MarkAsDeleted ==
    /\ scan_pc = "idle"
    /\ \E i \in ScanIds :
         /\ scan_db[i] # NoScan
         /\ scan_db' = [scan_db EXCEPT ![i] = [@ EXCEPT !.deleted_by_user = TRUE]]
    /\ scan_request' = NoScanRequest
    /\ scan_response' = NoScanReply
    /\ UNCHANGED <<scan_pc, scan_users, scan_log>>
    /\ UNCHANGED notScan

\* ScanAdmin.restore_scans on one scan:
\* queryset.update(deleted_by_user=False, deleted_at=None)
RestoreScans ==
    /\ scan_pc = "idle"
    /\ \E i \in ScanIds :
         /\ scan_db[i] # NoScan
         /\ scan_db' = [scan_db EXCEPT ![i] =
                [@ EXCEPT !.deleted_by_user = FALSE, !.deleted_at = 0]]
         /\ scan_log' = [scan_log EXCEPT ![i] =
                [@ EXCEPT !.deleted = IF @ = "deleted" THEN "undone" ELSE @]]
    /\ scan_request' = NoScanRequest
    /\ scan_response' = NoScanReply
    /\ UNCHANGED <<scan_pc, scan_users>>
    /\ UNCHANGED notScan

ScanNext ==
    \/ ScanArrive
    \/ Unauthorized
    \/ ReadScans
    \/ GenerateReport
    \/ DeleteScan
    \/ DeleteAccount
    \/ MarkAsDeleted
    \/ RestoreScans

----------------------------------------------------------------------------
(* calculate_consensus on two analyses side by side (LevelSpec) *)

\* A ranking whose first three leads are those of top, in the order of the
\* lead enumeration, the other leads after them.
RankingWithTop(top) ==
    LET InTopSet(lead) == lead \in top
        NotInTopSet(lead) == lead \notin top
    IN  SelectSeq(Leads, InTopSet) \o SelectSeq(Leads, NotInTopSet)

\* The three rankings of an analysis, up to a renaming of the leads: the
\* first has the leads 1..3 of the enumeration on top, the second shares
\* none, one, two or three leads with it, the third has any three of the
\* leads 1..9 on top.  The overall consensus reads of the rankings only
\* their top-3 sets.
RankingTriples ==
    {<<RankingWithTop(SeqSet(Take(Leads, 3))), RankingWithTop(second), RankingWithTop(third)>> :
        second \in {{Leads[k], Leads[k + 1], Leads[k + 2]} : k \in 1..4},
        third \in {t \in SUBSET SeqSet(Take(Leads, 9)) : Cardinality(t) = 3}}

LevelIdle ==
    /\ cmp_pc = "off"
    /\ cmp_rankings = <<>>
    /\ cmp_results = <<>>

LevelInit ==
    /\ cmp_pc = "ranked"
    /\ cmp_rankings \in RankingTriples \X RankingTriples
    /\ cmp_results = <<>>

\* calculate_consensus, its overall consensus, for each of the analyses.
CompareConsensus ==
    /\ cmp_pc = "ranked"
    /\ cmp_results' =
         [k \in 1..2 |-> OverallConsensus(cmp_rankings[k][1], cmp_rankings[k][2],
                                          cmp_rankings[k][3])]
    /\ cmp_pc' = "done"
    /\ UNCHANGED cmp_rankings
    /\ UNCHANGED notLevel

LevelNext == CompareConsensus

----------------------------------------------------------------------------
(* _remap_prediction on the probabilities of one forward pass (RemapSpec) *)

\* The indices of the model's output, class 0 being the one no diagnosis
\* names.
ModelClasses == 0..3

\* F.softmax(outputs.logits, dim=1)[0]: four probabilities that sum to 1.
Softmaxes ==
    {p \in [ModelClasses -> 0..ProbSteps] : p[0] + p[1] + p[2] + p[3] = ProbSteps}

\* torch.argmax over the indices given: the first index of a maximal value.
ArgMax(p, indices) ==
    CHOOSE i \in indices :
        /\ \A j \in indices : p[j] <= p[i]
        /\ \A j \in indices : j < i => p[j] < p[i]

NoRemap == [predicted_class |-> "", confidence |-> 0, target_idx |-> 0]

\* _remap_prediction: new_idx indexes valid_probs = probs[[1, 2, 3]] from 0,
\* as CLASS_NAMES is indexed; CLASS_NAMES here is indexed from 1.
_remap_prediction(old_idx, p) ==
    IF old_idx = 0
    THEN LET new_idx == ArgMax(p, {1, 2, 3}) - 1
         IN  [predicted_class |-> CLASS_NAMES[new_idx + 1],
              confidence |-> p[new_idx + 1],
              target_idx |-> old_idx]
    ELSE [predicted_class |-> CLASS_NAMES[old_idx],
          confidence |-> p[old_idx],
          target_idx |-> old_idx]

RemapIdle ==
    /\ remap_pc = "off"
    /\ probs = [i \in ModelClasses |-> 0]
    /\ remapped = NoRemap

RemapInit ==
    /\ remap_pc = "forward"
    /\ probs \in Softmaxes
    /\ remapped = NoRemap

\* predict from the argmax to the value of target_idx it hands to
\* integrated_gradients and ablation_study.
RemapPrediction ==
    /\ remap_pc = "forward"
    /\ remapped' = _remap_prediction(ArgMax(probs, ModelClasses), probs)
    /\ remap_pc' = "returned"
    /\ UNCHANGED probs
    /\ UNCHANGED notRemap

RemapNext == RemapPrediction

----------------------------------------------------------------------------
(* The specifications *)

Init == AnalysisInit /\ ServerInit /\ GeometryIdle /\ AblationIdle /\ AuthIdle /\ ScanIdle /\ LevelIdle /\ RemapIdle

Spec == Init /\ [][Next]_vars

PredictSpec == Init /\ [][PredictNext]_vars

ServerSpec == Init /\ [][ServerNext]_vars

GeometryCall ==
    AnalysisInit /\ ServerInit /\ GeometryInit /\ AblationIdle /\ AuthIdle /\ ScanIdle /\ LevelIdle /\ RemapIdle

GeometrySpec == GeometryCall /\ [][GeometryNext]_vars

AblationCall ==
    AnalysisInit /\ ServerInit /\ GeometryIdle /\ AblationInit /\ AuthIdle /\ ScanIdle /\ LevelIdle /\ RemapIdle

AblationSpec == AblationCall /\ [][AblationNext]_vars

AuthStart ==
    AnalysisInit /\ ServerInit /\ GeometryIdle /\ AblationIdle /\ AuthInit /\ ScanIdle /\ LevelIdle /\ RemapIdle

AuthSpec == AuthStart /\ [][AuthNext]_vars

ScanStart ==
    AnalysisInit /\ ServerInit /\ GeometryIdle /\ AblationIdle /\ AuthIdle /\ ScanInit /\ LevelIdle /\ RemapIdle

ScanSpec == ScanStart /\ [][ScanNext]_vars

LevelCall ==
    AnalysisInit /\ ServerInit /\ GeometryIdle /\ AblationIdle /\ AuthIdle /\ ScanIdle /\ LevelInit /\ RemapIdle

LevelSpec == LevelCall /\ [][LevelNext]_vars

RemapCall ==
    AnalysisInit /\ ServerInit /\ GeometryIdle /\ AblationIdle /\ AuthIdle /\ ScanIdle /\ LevelIdle /\ RemapInit

RemapSpec == RemapCall /\ [][RemapNext]_vars

----------------------------------------------------------------------------
(* Properties of one analysis (checked under Spec) *)

Done == pc = "done"

\* 1-based place of a lead in a ranking.
Position(ranked, lead) == CHOOSE i \in 1..Len(ranked) : ranked[i] = lead

\* How many of the three rankings place the lead at rank <= n.
InTop(lead, n) ==
    Sum3(Position(attn_ranked, lead) <= n,
         Position(grad_ranked, lead) <= n,
         Position(ablation_ranked, lead) <= n)

\* The leads a ranking places at rank <= 3.
Top3(ranked) == {lead \in LeadSet : Position(ranked, lead) <= 3}

CommonTop3 == Top3(attn_ranked) \cap Top3(grad_ranked) \cap Top3(ablation_ranked)

PairwiseTop3 ==
    Cardinality(Top3(attn_ranked) \cap Top3(grad_ranked))
  + Cardinality(Top3(grad_ranked) \cap Top3(ablation_ranked))
  + Cardinality(Top3(attn_ranked) \cap Top3(ablation_ranked))

RankedEverywhere(lead, n) ==
    /\ Position(attn_ranked, lead) = n
    /\ Position(grad_ranked, lead) = n
    /\ Position(ablation_ranked, lead) = n

AllBoxesNonEmpty == \A lead \in LeadSet : RegionSize(lead_boxes[lead]) > 0

AllBoxesEmpty == \A lead \in LeadSet : RegionSize(lead_boxes[lead]) = 0

\* C1: every lead's tier is given by the first matching rule on its counts
\* of top-3 and top-5 placements in the three rankings: 3 top-3 placements
\* critical (3 stars), else at least 2 important (2 stars), else at least 2
\* top-5 placements moderate (1 star), else minor (0 stars); a lead ranked
\* 1st by all methods is critical and one ranked 9th by all is minor.
C1_TierByFirstMatch ==
    Done =>
        \A lead \in LeadSet :
            LET c == consensus[lead]
                t3 == InTop(lead, 3)
                t5 == InTop(lead, 5)
            IN  /\ t3 = 3 => c.level = "critical" /\ c.stars = 3
                /\ t3 = 2 => c.level = "important" /\ c.stars = 2
                /\ t3 < 2 /\ t5 >= 2 => c.level = "moderate" /\ c.stars = 1
                /\ t3 < 2 /\ t5 < 2 => c.level = "minor" /\ c.stars = 0
                /\ RankedEverywhere(lead, 1) => c.level = "critical" /\ c.stars = 3
                /\ RankedEverywhere(lead, 9) => c.level = "minor" /\ c.stars = 0

C1_Witness ==
    /\ Done
    /\ AllBoxesNonEmpty
    /\ \E lead \in LeadSet : RankedEverywhere(lead, 1)
    /\ \E lead \in LeadSet : RankedEverywhere(lead, 9)
    /\ {consensus[lead].level : lead \in LeadSet}
           = {"critical", "important", "moderate", "minor"}

\* C2: the overall consensus score is min(100, |common| * 33.3 + pairwise * 5)
\* (here in tenths), common being the leads all three rankings place in
\* their top 3 and pairwise the sum of the three pairwise top-3 overlaps; it
\* lies in [0, 100].
C2_ScoreFormula ==
    Done =>
        /\ overall_consensus.score
               = Min(1000, Cardinality(CommonTop3) * 333 + PairwiseTop3 * 50)
        /\ overall_consensus.score \in 0..1000

C2_Witness ==
    /\ Done
    /\ AllBoxesNonEmpty
    /\ Cardinality(CommonTop3) = 1
    /\ PairwiseTop3 = 4
    /\ overall_consensus.score = 533

\* C3: the overall level is HIGH when at least 2 leads are in all three
\* top-3 sets, else MODERATE when at least 1 lead is or the pairwise overlap
\* sum is at least 4, else LOW.
C3_LevelRule ==
    Done =>
        overall_consensus.level =
            IF Cardinality(CommonTop3) >= 2 THEN "HIGH"
            ELSE IF Cardinality(CommonTop3) >= 1 \/ PairwiseTop3 >= 4 THEN "MODERATE"
            ELSE "LOW"

C3_Witness ==
    /\ Done
    /\ AllBoxesNonEmpty
    /\ CommonTop3 = {}
    /\ PairwiseTop3 = 4
    /\ overall_consensus.level = "MODERATE"

\* C4: when every lead box has zero area (all attention scores, gradient
\* scores and ablation drops are 0), all 12 leads get tier minor and the
\* overall consensus level is LOW.
C4_DegenerateIsNeutral ==
    (Done /\ AllBoxesEmpty) =>
        /\ \A lead \in LeadSet : consensus[lead].level = "minor"
        /\ overall_consensus.level = "LOW"

TierRank(level) ==
    CASE level = "minor" -> 0
      [] level = "moderate" -> 1
      [] level = "important" -> 2
      [] level = "critical" -> 3

\* C8: for two leads A and B of one analysis, if A has at least as many
\* top-3 placements as B and both have the same number of top-5 placements,
\* A's tier is not lower than B's.
C8_TierMonotonic ==
    Done =>
        \A a, b \in {<<InTop(lead, 3), InTop(lead, 5), TierRank(consensus[lead].level)>> :
                         lead \in LeadSet} :
            (a[1] >= b[1] /\ a[2] = b[2]) => a[3] >= b[3]

C8_Witness ==
    /\ Done
    /\ \E a, b \in LeadSet :
        /\ InTop(a, 3) = 2
        /\ InTop(b, 3) < 2
        /\ InTop(a, 5) = InTop(b, 5)
        /\ consensus[a].level = "important"
        /\ consensus[b].level = "moderate"

Top3Disjoint ==
    /\ Top3(attn_ranked) \cap Top3(grad_ranked) = {}
    /\ Top3(grad_ranked) \cap Top3(ablation_ranked) = {}
    /\ Top3(attn_ranked) \cap Top3(ablation_ranked) = {}

Top3Identical ==
    /\ Top3(attn_ranked) = Top3(grad_ranked)
    /\ Top3(grad_ranked) = Top3(ablation_ranked)

\* C9: the overall score is 0 when the three top-3 sets are pairwise
\* disjoint and exactly 100 when the three top-3 sets are identical.
C9_ScoreExtremes ==
    Done =>
        /\ Top3Disjoint => overall_consensus.score = 0
        /\ Top3Identical => overall_consensus.score = 1000

C9_Witness ==
    /\ Done
    /\ AllBoxesNonEmpty
    /\ Top3Identical
    /\ attn_ranked # grad_ranked
    /\ overall_consensus.score = 1000

C9_WitnessDisjoint ==
    /\ Done
    /\ Top3Disjoint
    /\ overall_consensus.score = 0

IsPermutation(ranked) ==
    /\ Len(ranked) = NumLeads
    /\ SeqSet(ranked) = LeadSet
    /\ \A i, j \in 1..Len(ranked) : ranked[i] = ranked[j] => i = j

\* C10: calculate_consensus ranks every lead: each of the three rankings is
\* a permutation of exactly the 12 lead names, every lead has a rank in
\* 1..12 in each method, and each rank of a method is held by one lead.
C10_RankingsArePermutations ==
    pc \in {"done", "error"} =>
        /\ pc = "done"
        /\ IsPermutation(attn_ranked)
        /\ IsPermutation(grad_ranked)
        /\ IsPermutation(ablation_ranked)
        /\ DOMAIN consensus = LeadSet
        /\ \A lead \in LeadSet :
            /\ consensus[lead].attn_rank \in 1..NumLeads
            /\ consensus[lead].grad_rank \in 1..NumLeads
            /\ consensus[lead].ablation_rank \in 1..NumLeads
            /\ attn_ranked[consensus[lead].attn_rank] = lead
            /\ grad_ranked[consensus[lead].grad_rank] = lead
            /\ ablation_ranked[consensus[lead].ablation_rank] = lead

C10_Witness ==
    /\ Done
    /\ \E lead \in LeadSet : RegionSize(lead_boxes[lead]) = 0
    /\ \E lead \in LeadSet : RegionSize(lead_boxes[lead]) > 0
    /\ \E a, b \in LeadSet :
        /\ a # b
        /\ ablation_results[a].confidence_drop = ablation_results[b].confidence_drop
        /\ lead_scores[a].attention_score # lead_scores[b].attention_score

\* 0-based place of a lead in the enumeration of get_lead_boxes.
LeadIndex == [lead \in LeadSet |-> Index(Leads, lead)]

\* A ranking is descending by key, and of two leads with equal key the one
\* earlier in the lead enumeration comes first.
RankedByKeyThenEnumeration(ranked, key) ==
    \A i, j \in 1..Len(ranked) :
        i < j =>
            \/ key[ranked[i]] > key[ranked[j]]
            \/ /\ key[ranked[i]] = key[ranked[j]]
               /\ LeadIndex[ranked[i]] < LeadIndex[ranked[j]]

\* C11: each ranking is descending by score, and whenever two leads have
\* equal score in a method the one earlier in the enumeration I, aVR, V1,
\* V4, II, aVL, V2, V5, III, aVF, V3, V6 gets the smaller rank.
C11_TiesByEnumerationOrder ==
    Done =>
        /\ RankedByKeyThenEnumeration(attn_ranked,
               [l \in LeadSet |-> lead_scores[l].attention_score])
        /\ RankedByKeyThenEnumeration(grad_ranked,
               [l \in LeadSet |-> lead_scores[l].gradient_score])
        /\ RankedByKeyThenEnumeration(ablation_ranked,
               [l \in LeadSet |-> ablation_results[l].confidence_drop])

C11_Witness ==
    /\ Done
    /\ AllBoxesNonEmpty
    /\ attn_ranked # Leads
    /\ \E a, b \in LeadSet :
        /\ LeadIndex[a] < LeadIndex[b]
        /\ lead_scores[a].attention_score = lead_scores[b].attention_score
        /\ consensus[a].attn_rank < consensus[b].attn_rank
        /\ \E c \in LeadSet :
            /\ LeadIndex[c] > LeadIndex[b]
            /\ consensus[c].attn_rank < consensus[a].attn_rank

IsConstantMap(map) == \A a, b \in LeadSet : map[a] = map[b]

\* C14: a saliency or attribution map whose maximum equals its minimum is
\* normalised to the all-zero map, so every lead's attention score (gradient
\* score) computed from such a map is 0.
C14_ConstantMapScoresZero ==
    [][(pc = "ablation" /\ pc' = "scored") =>
          /\ IsConstantMap(attention_map) =>
                \A lead \in LeadSet : lead_scores'[lead].attention_score = 0
          /\ IsConstantMap(ig_map) =>
                \A lead \in LeadSet : lead_scores'[lead].gradient_score = 0]_vars

----------------------------------------------------------------------------
(* Properties of the interpretation (checked under PredictSpec) *)

Returned == pc = "result"

\* The leads of key_findings, in their order.
KeyLeads ==
    [i \in 1..Len(interpretation.key_findings) |->
        interpretation.key_findings[i].lead]

LeadsAtLevel(level) == {l \in LeadSet : consensus[l].level = level}

\* C17: the key leads are all critical leads first, then at most two
\* important leads; when no lead is critical or important they are the three
\* leads with the highest attention score, highest first.  key_findings
\* lists them in that order and has at most 4 entries.
C17_KeyLeadSelection ==
    Returned =>
        LET key  == KeyLeads
            crit == LeadsAtLevel("critical")
            imp  == LeadsAtLevel("important")
            att  == [l \in LeadSet |-> lead_analysis[l].attention_score]
        IN  /\ Len(key) <= 4
            /\ \A i, j \in 1..Len(key) : i # j => key[i] # key[j]
            /\ (crit \cup imp # {}) =>
                  /\ crit \subseteq SeqSet(key)
                  /\ SeqSet(key) \subseteq crit \cup imp
                  /\ Cardinality(SeqSet(key) \cap imp) = Min(2, Cardinality(imp))
                  /\ \A i, j \in 1..Len(key) :
                        (key[i] \in imp /\ key[j] \in crit) => j < i
            /\ (crit \cup imp = {}) =>
                  /\ Len(key) = 3
                  /\ \A i, j \in 1..Len(key) : i < j => att[key[i]] >= att[key[j]]
                  /\ \A l \in LeadSet \ SeqSet(key) :
                        \A i \in 1..Len(key) : att[l] <= att[key[i]]

\* More than two important leads after a critical one: the cut to two acts.
C17_Witness ==
    /\ Returned
    /\ critical_leads # <<>>
    /\ Len(important_leads) > 2
    /\ Len(interpretation.key_findings) = Len(critical_leads) + 2

\* The fallback, over attention scores that are not all equal.
C17_WitnessFallback ==
    /\ Returned
    /\ critical_leads = <<>>
    /\ important_leads = <<>>
    /\ KeyLeads # Take(Leads, 3)
    /\ Len(interpretation.key_findings) = 3

TerritoryCount(key, territory) ==
    Cardinality({i \in 1..Len(key) : LEAD_INFO[key[i]].territory = territory})

\* The territory most key leads lie in, the earliest key lead's among tied
\* ones.
MajorityTerritory(key) ==
    LET count(i) == TerritoryCount(key, LEAD_INFO[key[i]].territory)
        first == CHOOSE i \in 1..Len(key) :
                    /\ \A j \in 1..Len(key) : count(j) <= count(i)
                    /\ \A j \in 1..(i - 1) : count(j) < count(i)
    IN  LEAD_INFO[key[first]].territory

\* C18: the territory named in clinical_correlation is the one most key
\* leads lie in, a tie going to the earliest key lead's territory, whatever
\* the run.
C18_TerritoryByMajority ==
    (Returned /\ predicted_class # "Normal") =>
        interpretation.clinical_correlation[2] = MajorityTerritory(KeyLeads)

UrgentCareTexts ==
    {"Urgent: Correlate with clinical presentation and cardiac biomarkers."}

\* C19: a Normal prediction gets the routine follow-up recommendation and
\* no urgent-care text, whatever the critical leads, the important leads,
\* the consensus level and the lead scores are.
C19_NormalIsRoutine ==
    (Returned /\ predicted_class = "Normal") =>
        /\ interpretation.recommendation = "Routine follow-up as indicated."
        /\ interpretation.recommendation \notin UrgentCareTexts

\* A Normal prediction over the strongest findings the analysis can give.
C19_Witness ==
    /\ Returned
    /\ predicted_class = "Normal"
    /\ Len(critical_leads) = 3
    /\ overall_consensus.level = "HIGH"
    /\ interpretation.recommendation = "Routine follow-up as indicated."

\* C25: in every result the leads of tier critical are the common top-3
\* leads (critical_leads and common_leads hold the same leads), there are at
\* most 3 of them, and the consensus level is HIGH exactly when at least 2
\* leads are critical.
C25_CriticalAreCommon ==
    Returned =>
        /\ SeqSet(critical_leads) = overall_consensus.common_critical_leads
        /\ Cardinality(SeqSet(critical_leads)) = Len(critical_leads)
        /\ Len(critical_leads) <= 3
        /\ overall_consensus.level = "HIGH" <=> Len(critical_leads) >= 2

\* Two critical leads beside important ones, level HIGH.
C25_Witness ==
    /\ Returned
    /\ Len(critical_leads) = 2
    /\ important_leads # <<>>
    /\ overall_consensus.level = "HIGH"

\* One critical lead, level not HIGH.
C25_WitnessOne ==
    /\ Returned
    /\ Len(critical_leads) = 1
    /\ important_leads # <<>>
    /\ overall_consensus.level = "MODERATE"

\* C26: whatever the consensus, the key-lead list is non-empty and has at
\* most 3 leads (the critical leads and at most two important ones never
\* exceed 3), so key_findings holds every key lead and every critical
\* lead: its cut to 4 entries drops none.
C26_KeyLeadsAtMostThree ==
    Returned =>
        /\ Len(critical_leads) + Min(2, Len(important_leads)) <= 3
        /\ Len(interpretation.key_findings) \in 1..3
        /\ (critical_leads # <<>> \/ important_leads # <<>>)
              => Len(interpretation.key_findings)
                     = Len(critical_leads) + Min(2, Len(important_leads))
        /\ SeqSet(critical_leads) \subseteq SeqSet(KeyLeads)

\* Two critical leads and the one important lead that can go with them.
C26_Witness ==
    /\ Returned
    /\ Len(critical_leads) = 2
    /\ Len(important_leads) = 1
    /\ Len(interpretation.key_findings) = 3

\* No critical lead and a single important one: a one-lead list.
C26_WitnessShort ==
    /\ Returned
    /\ critical_leads = <<>>
    /\ Len(important_leads) = 1
    /\ Len(interpretation.key_findings) = 1

----------------------------------------------------------------------------
(* Properties of the two functions (GeometrySpec, AblationSpec) *)

\* C13: the ablation drop percentage of a lead is at most 100, and it is 0
\* when the baseline confidence of the target class is 0.
C13_DropPercentageBounded ==
    abl_pc = "returned" =>
        /\ abl_record.drop_percentage <= 1000
        /\ baseline_conf = 0 => abl_record.drop_percentage = 0

C13_Witness ==
    /\ abl_pc = "returned"
    /\ baseline_conf = 0
    /\ masked_conf > 0
    /\ abl_record.confidence_drop < 0
    /\ abl_record.drop_percentage = 0

C13_WitnessFullDrop ==
    /\ abl_pc = "returned"
    /\ baseline_conf > 0
    /\ masked_conf = 0
    /\ abl_record.drop_percentage = 1000

BoxWithin(box, width, height) ==
    /\ 0 <= box[1] /\ box[1] <= width
    /\ 0 <= box[3] /\ box[3] <= width
    /\ 0 <= box[2] /\ box[2] <= height
    /\ 0 <= box[4] /\ box[4] <= height

BoxNonEmpty(box) == box[1] < box[3] /\ box[2] < box[4]

TwelveNamedRegions(mapping) ==
    /\ DOMAIN mapping = LeadSet
    /\ Cardinality(DOMAIN mapping) = 12

\* C15 as claimed: for any width and height get_lead_boxes returns exactly
\* 12 regions, one per lead name, each non-empty (x1 < x2, y1 < y2) and
\* within 0 <= x <= width, 0 <= y <= height.
C15_BoxesNonEmptyForAnySize ==
    geo_pc = "returned" =>
        /\ TwelveNamedRegions(geo_boxes)
        /\ \A lead \in LeadSet :
            /\ BoxNonEmpty(geo_boxes[lead])
            /\ BoxWithin(geo_boxes[lead], geo_width, geo_height)

\* C15 as amended: for any width and height get_lead_boxes returns exactly
\* 12 regions, one per lead name, each within 0 <= x <= width and
\* 0 <= y <= height with x1 <= x2 and y1 <= y2; all of them are non-empty
\* exactly when width >= 4 and height >= 5.
C15_BoxesWithinBounds ==
    geo_pc = "returned" =>
        /\ TwelveNamedRegions(geo_boxes)
        /\ \A lead \in LeadSet :
            /\ BoxWithin(geo_boxes[lead], geo_width, geo_height)
            /\ geo_boxes[lead][1] <= geo_boxes[lead][3]
            /\ geo_boxes[lead][2] <= geo_boxes[lead][4]
        /\ (\A lead \in LeadSet : BoxNonEmpty(geo_boxes[lead]))
               <=> (geo_width >= 4 /\ geo_height >= 5)

C15_Witness ==
    /\ geo_pc = "returned"
    /\ geo_width >= 4
    /\ geo_height >= 5
    /\ geo_width # geo_height
    /\ \A lead \in LeadSet : BoxNonEmpty(geo_boxes[lead])

\* C16: called with width 0 or height 0, get_lead_boxes signals an error
\* and returns no mapping.
C16_DegenerateSizeRejected ==
    geo_pc = "returned" => (geo_width # 0 /\ geo_height # 0)

----------------------------------------------------------------------------
(* Properties of the server process (checked under ServerSpec) *)

Finished(r) == rpc[r] = "done"

\* C5: a request whose analysis failed answers an error, has created no
\* Scan record and has left none of the files it wrote (uploaded image,
\* lead-grid overlay) in storage.
C5_FailureLeavesNothing ==
    \A r \in Requests :
        (Finished(r) /\ response[r] = 500) =>
            /\ r \notin scans
            /\ Files(r) \cap storage = {}

Holders == {r \in Requests : predictor[r] # NoObject}

\* C6: over any interleaving of ECGPredictor() constructions the model is
\* loaded exactly once, and every construction returns the same instance,
\* with its model loaded.
C6_SingletonLoadedOnce ==
    /\ load_count <= 1
    /\ \A r \in Holders :
        /\ model_loaded[predictor[r]]
        /\ load_count = 1
        /\ \A q \in Holders : predictor[q] = predictor[r]

\* A request is inside its integrated-gradients phase: it has run the first
\* forward pass of the loop and has not left the loop.
MidIG(r) ==
    /\ rpc[r] \in IGPositions
    /\ ig_step[r] > 0 \/ rpc[r] # "ig_forward"

\* A step that is a request's model.zero_grad() or score.backward().
StatefulStep(r) ==
    \/ rpc[r] = "ig_zero" /\ rpc'[r] = "ig_backward"
    \/ rpc[r] = "ig_backward" /\ rpc'[r] \in {"ig_forward", "ablation"}

\* C7: while a request is inside its integrated-gradients phase, no other
\* request on the same model instance runs a zero_grad or a backward pass.
C7_IGSerialized ==
    [][\A a, b \in Requests :
          (a # b /\ predictor[a] = predictor[b] /\ MidIG(a)) => ~StatefulStep(b)]_vars


\* The instance published stands without a model and no request is inside
\* its _initialize_model: the initialization has failed.
InitializationFailed ==
    /\ _instance # NoObject
    /\ ~model_loaded[_instance]
    /\ \A q \in Requests : rpc[q] # "new_init"

\* C28: ECGPredictor() returns to no caller an instance whose model is not
\* loaded, be it that the initialization raised or that another thread is
\* still inside it; a construction that comes after a failed initialization
\* attempts the load again.
C28_NoUnusableInstance ==
    [][\A r \in Requests :
          /\ (rpc[r] = "new_return" /\ rpc'[r] = "predict")
             => model_loaded[predictor'[r]]
          /\ (rpc[r] = "new_check" /\ rpc'[r] # "new_check" /\ InitializationFailed)
             => rpc'[r] = "new_alloc"]_vars

----------------------------------------------------------------------------
(* Properties of the login and two-factor endpoints (checked under AuthSpec) *)

\* The step in which the view named answers the request it received.
Answers(endpoint) ==
    /\ auth_pc = "received"
    /\ auth_request.endpoint = endpoint
    /\ auth_pc' = "idle"

\* The codes pyotp accepts for a user's stored secret at this time step.
ValidCodes(user) ==
    {TOTP(two_fa_secret[user], step) : step \in (clock - 1)..(clock + 1)}

\* C20: verify_2fa succeeds only with a valid code for the secret enable_2fa
\* stored, and turns 2FA on; for a user with 2FA on, login_user with the
\* correct email and password answers requires_2fa and issues no tokens;
\* verify_2fa_login issues tokens only for the user named, with a code valid
\* for that user now, and an invalid code gets 400 and no tokens.
C20_TwoFactorLoginOrdering ==
    [][/\ (/\ Answers("login_user")
           /\ auth_request.email \in Users
           /\ auth_request.password # 0
           /\ auth_request.password = password[auth_request.email]
           /\ two_fa_enabled[auth_request.email])
          => /\ auth_response'.status = 200
             /\ auth_response'.requires_2fa
             /\ auth_response'.tokens = NoUser
             /\ token_holders' = token_holders
       /\ (Answers("verify_2fa") /\ auth_response'.status = 200)
          => /\ two_fa_secret[auth_request.bearer] # NoSecret
             /\ auth_request.token \in ValidCodes(auth_request.bearer)
             /\ two_fa_enabled'[auth_request.bearer]
       /\ Answers("verify_2fa_login")
          => /\ auth_response'.tokens # NoUser
                => /\ auth_response'.status = 200
                   /\ auth_response'.tokens = auth_request.email
                   /\ two_fa_enabled[auth_request.email]
                   /\ auth_request.token \in ValidCodes(auth_request.email)
             /\ (/\ auth_request.email \in Users
                 /\ two_fa_enabled[auth_request.email]
                 /\ auth_request.token \notin ValidCodes(auth_request.email))
                => /\ auth_response'.status = 400
                   /\ auth_response'.tokens = NoUser
                   /\ token_holders' = token_holders]_vars

\* The second factor was accepted for a user with 2FA on.
C20_Witness ==
    /\ auth_pc = "idle"
    /\ auth_request.endpoint = "verify_2fa_login"
    /\ auth_request.email \in Users
    /\ two_fa_enabled[auth_request.email]
    /\ auth_response.status = 200
    /\ auth_response.tokens = auth_request.email

\* The password alone was answered with requires_2fa.
C20_WitnessRequires2FA ==
    /\ auth_pc = "idle"
    /\ auth_request.endpoint = "login_user"
    /\ auth_response.requires_2fa
    /\ auth_response.tokens = NoUser

\* An invalid code was refused for a user with 2FA on.
C20_WitnessInvalidCode ==
    /\ auth_pc = "idle"
    /\ auth_request.endpoint = "verify_2fa_login"
    /\ auth_request.email \in Users
    /\ two_fa_enabled[auth_request.email]
    /\ auth_request.token # NoCode
    /\ auth_response.status = 400

\* C21: when register_user returns 201 its response carries tokens that
\* get_current_user accepts, and login_user with the registered email and
\* password returns 200 with tokens (for a user without 2FA), no other step
\* being needed.
C21_RegisteredCanAuthenticate ==
    [][/\ (Answers("register_user") /\ auth_response'.status = 201)
          => /\ auth_response'.tokens = auth_request.email
             /\ auth_request.email \in token_holders'
             /\ is_active'[auth_request.email]
       /\ (/\ Answers("login_user")
           /\ auth_request.email \in registered
           /\ password[auth_request.email] # 0
           /\ auth_request.password = password[auth_request.email]
           /\ ~two_fa_enabled[auth_request.email])
          => /\ auth_response'.status = 200
             /\ auth_response'.tokens = auth_request.email]_vars

\* The request being answered carries the token of an active user.
ByActiveUser == auth_request.bearer # NoUser /\ is_active[auth_request.bearer]

\* What every step keeps of the 2FA fields: the flag is on only with a
\* secret stored; it goes on only through verify_2fa with a code valid for
\* the stored secret; enable_2fa on a user with 2FA on is an error and
\* changes nothing; disable_2fa with a wrong password changes nothing.
TwoFactorFieldsKept ==
    /\ \A u \in Users : two_fa_enabled'[u] => two_fa_secret'[u] # NoSecret
    /\ \A u \in Users :
          (~two_fa_enabled[u] /\ two_fa_enabled'[u])
          => /\ Answers("verify_2fa")
             /\ auth_request.bearer = u
             /\ two_fa_secret[u] # NoSecret
             /\ auth_request.token \in ValidCodes(u)
             /\ two_fa_secret'[u] = two_fa_secret[u]
    /\ (Answers("enable_2fa") /\ ByActiveUser /\ two_fa_enabled[auth_request.bearer])
       => /\ auth_response'.status = 400
          /\ two_fa_secret' = two_fa_secret
          /\ two_fa_enabled' = two_fa_enabled
    /\ (/\ Answers("disable_2fa")
        /\ ByActiveUser
        /\ auth_request.password # password[auth_request.bearer])
       => /\ two_fa_secret' = two_fa_secret
          /\ two_fa_enabled' = two_fa_enabled

\* disable_2fa is answering a request that carries the user's password.
DisableWithPassword ==
    /\ Answers("disable_2fa")
    /\ ByActiveUser
    /\ auth_request.password # 0
    /\ auth_request.password = password[auth_request.bearer]

\* C29 as claimed: over any sequence of enable_2fa, verify_2fa and
\* disable_2fa calls the flag is on only with a secret set and goes on only
\* through verify_2fa with a valid code for the stored secret; enable_2fa
\* on a user with 2FA on is an error and leaves the secret; disable_2fa with
\* the correct password clears the flag and the secret, and with a wrong
\* password changes nothing.
C29_DisableAlwaysClears ==
    [][/\ TwoFactorFieldsKept
       /\ DisableWithPassword
          => /\ ~two_fa_enabled'[auth_request.bearer]
             /\ two_fa_secret'[auth_request.bearer] = NoSecret]_vars

\* C29 as amended: the same, disable_2fa with the correct password clearing
\* the flag and the secret of a user with 2FA on, and answering 400 with
\* nothing changed (a secret awaiting verification stays) for a user with
\* 2FA off.
C29_DisableClearsWhenEnabled ==
    [][/\ TwoFactorFieldsKept
       /\ (DisableWithPassword /\ two_fa_enabled[auth_request.bearer])
          => /\ auth_response'.status = 200
             /\ ~two_fa_enabled'[auth_request.bearer]
             /\ two_fa_secret'[auth_request.bearer] = NoSecret
       /\ (DisableWithPassword /\ ~two_fa_enabled[auth_request.bearer])
          => /\ auth_response'.status = 400
             /\ two_fa_secret' = two_fa_secret
             /\ two_fa_enabled' = two_fa_enabled]_vars

\* 2FA was disabled with the password.
C29_Witness ==
    /\ auth_pc = "idle"
    /\ auth_request.endpoint = "disable_2fa"
    /\ auth_response.status = 200
    /\ ~two_fa_enabled[auth_request.bearer]
    /\ two_fa_secret[auth_request.bearer] = NoSecret

\* disable_2fa with the password left a secret that awaits verification.
C29_WitnessPendingSecret ==
    /\ auth_pc = "idle"
    /\ auth_request.endpoint = "disable_2fa"
    /\ auth_request.bearer # NoUser
    /\ auth_request.password = password[auth_request.bearer]
    /\ auth_response.status = 400
    /\ two_fa_secret[auth_request.bearer] # NoSecret

\* enable_2fa was refused for a user with 2FA on.
C29_WitnessEnableRefused ==
    /\ auth_pc = "idle"
    /\ auth_request.endpoint = "enable_2fa"
    /\ auth_request.bearer # NoUser
    /\ two_fa_enabled[auth_request.bearer]
    /\ auth_response.status = 400

\* C30: a user with 2FA on is issued tokens only in answer to a valid TOTP
\* code that follows the first factor of that login, the password accepted
\* by login_user (or a verified Google identity): neither verify_2fa_login
\* alone nor google_auth alone yields tokens for such a user.
C30_TokensNeedBothFactors ==
    [][\A u \in Users :
          (/\ auth_pc = "received"
           /\ auth_pc' = "idle"
           /\ auth_response'.tokens = u
           /\ two_fa_enabled[u])
          => /\ auth_request.endpoint = "verify_2fa_login"
             /\ auth_request.token \in ValidCodes(u)
             /\ u \in first_factor]_vars

-----------------------------------------------------------------------------
(* Properties of the scan endpoints (checked under ScanSpec) *)

\* The step in which the scan view named answers the request it received.
ScanAnswers(endpoint) ==
    /\ scan_pc = "received"
    /\ scan_request.endpoint = endpoint
    /\ scan_pc' = "idle"

\* What holds of every generate_report and download_report answer: a 201
\* sets report_generated and report_path to the path answered, and a
\* download succeeds only for a scan whose report has been generated.
FirstReportAndDownload ==
    /\ (ScanAnswers("generate_report") /\ scan_response'.status = 201)
       => /\ scan_log[scan_request.scan_id].reported = NoPath
          /\ scan_response'.report_path # NoPath
          /\ scan_db'[scan_request.scan_id].report_generated
          /\ scan_db'[scan_request.scan_id].report_path = scan_response'.report_path
    /\ (ScanAnswers("download_report") /\ scan_response'.status = 200)
       => /\ scan_db[scan_request.scan_id].report_generated
          /\ scan_log[scan_request.scan_id].reported # NoPath
          /\ scan_response'.report_path = scan_log[scan_request.scan_id].reported

\* The answer to a generate_report call for a scan whose report exists.
AlreadyExistsAnswer ==
    /\ scan_response'.status = 200
    /\ scan_response'.message = "Report already exists"
    /\ scan_response'.report_path = scan_log[scan_request.scan_id].reported
    /\ ~scan_response'.ran_generator
    /\ scan_db'[scan_request.scan_id] = scan_db[scan_request.scan_id]

\* C22 as claimed: the first successful generate_report returns 201 and sets
\* report_generated and report_path; every later call for the same scan (by
\* the user who generated the report) returns 200 'Report already exists'
\* with the same report_path, does not run the generator again and leaves
\* the scan record unchanged; download_report succeeds only for a scan
\* whose report has been generated.
C22_ReportIdempotentAlways ==
    [][/\ FirstReportAndDownload
       /\ (/\ ScanAnswers("generate_report")
           /\ scan_log[scan_request.scan_id].reported # NoPath
           /\ scan_request.bearer = scan_log[scan_request.scan_id].owner)
          => AlreadyExistsAnswer]_vars

\* C22 as amended: the same, for every later call by the scan's owner made
\* while the owner's account exists and the scan is not marked deleted.
C22_ReportIdempotentWhileVisible ==
    [][/\ FirstReportAndDownload
       /\ (/\ ScanAnswers("generate_report")
           /\ scan_log[scan_request.scan_id].reported # NoPath
           /\ scan_request.bearer = scan_db[scan_request.scan_id].user
           /\ scan_request.bearer \in scan_users
           /\ ~scan_db[scan_request.scan_id].deleted_by_user)
          => AlreadyExistsAnswer]_vars

\* A second generate_report call was answered with the existing report.
C22_Witness ==
    /\ scan_pc = "idle"
    /\ scan_request.endpoint = "generate_report"
    /\ scan_response.status = 200
    /\ scan_response.message = "Report already exists"
    /\ scan_response.report_path = scan_log[scan_request.scan_id].reported

\* A report was downloaded.
C22_WitnessDownload ==
    /\ scan_pc = "idle"
    /\ scan_request.endpoint = "download_report"
    /\ scan_response.status = 200

\* The scans delete_scan has succeeded on.
EverSoftDeleted == {i \in ScanIds : scan_log[i].deleted # "no"}

\* Those of them that no administrator has restored since and whose owner's
\* account has not been deleted since.
StillSoftDeleted == {i \in ScanIds : scan_log[i].deleted = "deleted"}

\* A step keeps the scans of hidden out of its owner's sight and in the
\* table, and returns no scan to another user than its owner.
HidesAndKeeps(hidden, hidden_after) ==
    /\ \A i \in hidden_after :
        /\ scan_db'[i] # NoScan
        /\ scan_db'[i].deleted_by_user
        /\ scan_db'[i].deleted_at # 0
    /\ ScanAnswers("get_user_scans")
       => /\ scan_response'.scans \cap hidden = {}
          /\ scan_response'.count = Cardinality(scan_response'.scans)
    /\ ScanAnswers("get_scan_statistics")
       => scan_response'.count <=
              Cardinality({i \in ScanIds : scan_db[i].user = scan_request.bearer} \ hidden)
    /\ \A e \in {"get_scan_detail", "generate_report", "download_report", "delete_scan"} :
          (/\ ScanAnswers(e)
           /\ scan_request.bearer \in scan_users
           /\ scan_request.scan_id \in hidden)
          => scan_response'.status = 404
    /\ scan_pc' = "idle"
       => \A i \in scan_response'.scans : scan_db[i].user = scan_request.bearer

\* C23 as claimed: after delete_scan succeeds on a scan, in every later
\* state get_user_scans and get_scan_statistics do not count or list it,
\* get_scan_detail, generate_report, download_report and delete_scan answer
\* 404 for it, and its record exists with deleted_by_user true and
\* deleted_at set; no endpoint returns a scan to a user other than its owner.
C23_SoftDeleteForGood ==
    [][HidesAndKeeps(EverSoftDeleted, EverSoftDeleted')]_vars

\* C23 as amended: the same for as long as no administrator restores the
\* scan and the owner's account is not deleted.
C23_SoftDeleteUntilUndone ==
    [][HidesAndKeeps(StillSoftDeleted, StillSoftDeleted')]_vars

\* The owner asked for a scan deleted earlier and got 404.
C23_Witness ==
    /\ scan_pc = "idle"
    /\ scan_request.endpoint \in {"get_scan_detail", "generate_report", "download_report"}
    /\ scan_request.scan_id \in StillSoftDeleted
    /\ scan_request.bearer = scan_db[scan_request.scan_id].user
    /\ scan_response.status = 404

\* The owner listed the scans after deleting one.
C23_WitnessList ==
    /\ scan_pc = "idle"
    /\ scan_request.endpoint = "get_user_scans"
    /\ \E i \in StillSoftDeleted : scan_db[i].user = scan_request.bearer
    /\ scan_response.status = 200

\* A scan of another user was asked for.
C23_WitnessOtherUser ==
    /\ scan_pc = "idle"
    /\ scan_request.endpoint = "get_scan_detail"
    /\ scan_request.bearer \in scan_users
    /\ scan_db[scan_request.scan_id] # NoScan
    /\ scan_db[scan_request.scan_id].user # scan_request.bearer
    /\ ~scan_db[scan_request.scan_id].deleted_by_user
    /\ scan_response.status = 404

-----------------------------------------------------------------------------
(* Properties of the overall consensus over pairs of analyses (LevelSpec) *)

LevelRank(level) ==
    CASE level = "LOW" -> 0
      [] level = "MODERATE" -> 1
      [] level = "HIGH" -> 2

\* C24: of any two results, the one with the higher level has the strictly
\* higher score: every HIGH result scores above every MODERATE one and
\* every MODERATE result above every LOW one.
C24_LevelsOrderedByScore ==
    cmp_pc = "done" =>
        \A i, j \in 1..2 :
            LevelRank(cmp_results[i].level) > LevelRank(cmp_results[j].level)
                => cmp_results[i].score > cmp_results[j].score

\* The lowest MODERATE result beside the highest LOW one.
C24_Witness ==
    /\ cmp_pc = "done"
    /\ cmp_results[1].level = "MODERATE"
    /\ cmp_results[1].score = 200
    /\ cmp_results[2].level = "LOW"
    /\ cmp_results[2].score = 150

\* The lowest HIGH result beside the highest MODERATE one.
C24_WitnessHigh ==
    /\ cmp_pc = "done"
    /\ cmp_results[1].level = "HIGH"
    /\ cmp_results[1].score = 966
    /\ cmp_results[2].level = "MODERATE"
    /\ cmp_results[2].score = 633

-----------------------------------------------------------------------------
(* Properties of the class remapping (checked under RemapSpec) *)

\* The model index of a diagnosis: its place in CLASS_NAMES shifted by one.
ModelIndex(class) == CHOOSE i \in 1..3 : CLASS_NAMES[i] = class

\* C27: for every probability vector the target index handed to
\* integrated_gradients and ablation_study is the model index of the
\* diagnosis reported, also when the argmax is class 0 and the diagnosis is
\* re-picked among the classes 1..3; the confidence reported is the
\* probability of the diagnosis.
C27_TargetIsReportedClass ==
    remap_pc = "returned" =>
        /\ remapped.target_idx = ModelIndex(remapped.predicted_class)
        /\ remapped.confidence = probs[ModelIndex(remapped.predicted_class)]

====